---- MODULE Spec2Model ----
(***************************************************************************)
(* Model of agents/template_engine_agent.py: the JSON template renderer.   *)
(*                                                                         *)
(* Text is a sequence of characters; a character is a one-character        *)
(* string, except the control characters, which are named: "LF" is U+000A, *)
(* "TAB" U+0009, "CR" U+000D, "BS" U+0008, "FF" U+000C and "SOH" U+0001.   *)
(* Offsets are Python's: 0-based, slices half-open.                        *)
(*                                                                         *)
(* A Python value is a tagged record:                                      *)
(*   None            [t |-> "null"]                                        *)
(*   bool            [t |-> "bool", v |-> TRUE]                            *)
(*   int             [t |-> "num",  v |-> 42]                              *)
(*   float           [t |-> "float", v |-> <lexeme>]  (parsed text only)   *)
(*   str             [t |-> "str",  v |-> <characters>]                    *)
(*   list            [t |-> "list", v |-> <values>]                        *)
(*   dict            [t |-> "map",  v |-> <<key, value>> pairs in          *)
(*                    insertion order, keys unique]                        *)
(***************************************************************************)
EXTENDS Integers, Sequences, FiniteSets, TLC

VARIABLES template_text, context, pc, last_index, filled_parts, filled,
          result, subs

\* the call in progress of one of the other functions of the pipeline: its
\* name, its arguments, where it stands and what it gave
VARIABLE call

vars == <<template_text, context, pc, last_index, filled_parts, filled,
          result, subs, call>>

(***************************************************************************)
(* Bounds of the input space.                                              *)
(***************************************************************************)
\* longest string value placed in a context
MaxStrLen == 2
\* longest list value placed in a context
MaxSeqLen == 2

(***************************************************************************)
(* Characters.                                                             *)
(***************************************************************************)
QUOTE == "\""
BACKSLASH == "\\"
LF == "LF"
SOH == "SOH"
TAB == "TAB"
CR == "CR"
BS == "BS"
FF == "FF"

Lower == {"a","b","c","d","e","f","g","h","i","j","k","l","m",
          "n","o","p","q","r","s","t","u","v","w","x","y","z"}
Upper == {"A","B","C","D","E","F","G","H","I","J","K","L","M",
          "N","O","P","Q","R","S","T","U","V","W","X","Y","Z"}
Digits == {"0","1","2","3","4","5","6","7","8","9"}

\* \s of the placeholder pattern, over the model's characters
ReSpace == {" ", TAB, LF, CR, FF}
\* [a-zA-Z0-9_\.] of the placeholder pattern
KeyChars == Lower \cup Upper \cup Digits \cup {"_", "."}

(***************************************************************************)
(* Python slicing and indexing on text.                                    *)
(***************************************************************************)
\* s[a:b]
Slice(s, a, b) == SubSeq(s, a + 1, b)
\* s[i:i+1]: the character at offset i, "" past the end
At(s, i) == IF i >= 0 /\ i < Len(s) THEN s[i + 1] ELSE ""

RECURSIVE Join(_)
\* "".join(parts)
Join(parts) == IF parts = <<>> THEN <<>> ELSE Head(parts) \o Join(Tail(parts))

(***************************************************************************)
(* Values.                                                                 *)
(***************************************************************************)
None == [t |-> "null"]
Bool(b) == [t |-> "bool", v |-> b]
Num(n) == [t |-> "num", v |-> n]
Str(s) == [t |-> "str", v |-> s]
List(s) == [t |-> "list", v |-> s]
Map(p) == [t |-> "map", v |-> p]

\* isinstance(v, dict)
IsDict(v) == v.t = "map"
\* isinstance(v, (list, dict))
IsComposite(v) == v.t \in {"list", "map"}

\* key in d
HasKey(d, k) == \E i \in 1..Len(d.v) : d.v[i][1] = k
\* d.get(k): the value under k, None when k is absent
DictGet(d, k) ==
    IF HasKey(d, k)
    THEN d.v[CHOOSE i \in 1..Len(d.v) : d.v[i][1] = k][2]
    ELSE None
\* d[k] = x as dict(pairs) builds it: a repeated key keeps its place and
\* takes the last value
DictSet(d, k, x) ==
    IF HasKey(d, k)
    THEN Map([i \in 1..Len(d.v) |->
                 IF d.v[i][1] = k THEN <<k, x>> ELSE d.v[i]])
    ELSE Map(Append(d.v, <<k, x>>))

RECURSIVE DeepEq(_, _)
\* Python's ==, on the values of the model: dicts compare without order
DeepEq(x, y) ==
    IF x.t # y.t THEN FALSE
    ELSE IF x.t = "null" THEN TRUE
    ELSE IF x.t = "list"
         THEN /\ Len(x.v) = Len(y.v)
              /\ \A i \in 1..Len(x.v) : DeepEq(x.v[i], y.v[i])
    ELSE IF x.t = "map"
         THEN /\ Len(x.v) = Len(y.v)
              /\ \A i \in 1..Len(x.v) :
                    /\ HasKey(y, x.v[i][1])
                    /\ DeepEq(x.v[i][2], DictGet(y, x.v[i][1]))
    ELSE x.v = y.v

(***************************************************************************)
(* json.dumps(value, ensure_ascii=False), as render_template calls it.     *)
(***************************************************************************)
\* the encoder's escape table for one character of a str
EscapeChar(c) ==
    IF c = QUOTE THEN <<BACKSLASH, QUOTE>>
    ELSE IF c = BACKSLASH THEN <<BACKSLASH, BACKSLASH>>
    ELSE IF c = LF THEN <<BACKSLASH, "n">>
    ELSE IF c = CR THEN <<BACKSLASH, "r">>
    ELSE IF c = TAB THEN <<BACKSLASH, "t">>
    ELSE IF c = BS THEN <<BACKSLASH, "b">>
    ELSE IF c = FF THEN <<BACKSLASH, "f">>
    ELSE IF c = SOH THEN <<BACKSLASH, "u", "0", "0", "0", "1">>
    ELSE <<c>>

RECURSIVE EscapeStr(_)
EscapeStr(s) ==
    IF s = <<>> THEN <<>> ELSE EscapeChar(Head(s)) \o EscapeStr(Tail(s))

\* the encoder's text of a str: quoted and escaped
DumpsStr(s) == <<QUOTE>> \o EscapeStr(s) \o <<QUOTE>>

DigitChar(d) == CASE d = 0 -> "0" [] d = 1 -> "1" [] d = 2 -> "2"
                  [] d = 3 -> "3" [] d = 4 -> "4" [] d = 5 -> "5"
                  [] d = 6 -> "6" [] d = 7 -> "7" [] d = 8 -> "8"
                  [] d = 9 -> "9"

RECURSIVE NatText(_)
NatText(n) ==
    IF n < 10 THEN <<DigitChar(n)>>
    ELSE NatText(n \div 10) \o <<DigitChar(n % 10)>>

\* int.__repr__
IntText(n) == IF n < 0 THEN <<"-">> \o NatText(0 - n) ELSE NatText(n)

RECURSIVE Dumps(_)
RECURSIVE DumpsItems(_)
RECURSIVE DumpsPairs(_)
\* the elements of a list, separated by ", "
DumpsItems(items) ==
    IF items = <<>> THEN <<>>
    ELSE Dumps(Head(items))
         \o (IF Len(items) > 1 THEN <<",", " ">> ELSE <<>>)
         \o DumpsItems(Tail(items))
\* the items of a dict, "key": value, separated by ", "
DumpsPairs(pairs) ==
    IF pairs = <<>> THEN <<>>
    ELSE DumpsStr(Head(pairs)[1]) \o <<":", " ">> \o Dumps(Head(pairs)[2])
         \o (IF Len(pairs) > 1 THEN <<",", " ">> ELSE <<>>)
         \o DumpsPairs(Tail(pairs))
Dumps(x) ==
    CASE x.t = "null" -> <<"n", "u", "l", "l">>
      [] x.t = "bool" -> IF x.v THEN <<"t", "r", "u", "e">>
                         ELSE <<"f", "a", "l", "s", "e">>
      [] x.t = "num" -> IntText(x.v)
      [] x.t = "str" -> DumpsStr(x.v)
      [] x.t = "list" -> <<"[">> \o DumpsItems(x.v) \o <<"]">>
      [] x.t = "map" -> <<"{">> \o DumpsPairs(x.v) \o <<"}">>

(***************************************************************************)
(* _lookup_context                                                         *)
(***************************************************************************)
RECURSIVE SplitFrom(_, _)
\* key.split("."), cur being the segment read so far
SplitFrom(key, cur) ==
    IF key = <<>> THEN <<cur>>
    ELSE IF Head(key) = "." THEN <<cur>> \o SplitFrom(Tail(key), <<>>)
    ELSE SplitFrom(Tail(key), Append(cur, Head(key)))

Split(key) == SplitFrom(key, <<>>)

RECURSIVE LookupPartsTruthy(_, _)
\* the loop with a truth test on the value found: "if not cur.get(part)"
LookupPartsTruthy(cur, parts) ==
    IF parts = <<>> THEN cur
    ELSE IF ~IsDict(cur) THEN None
    ELSE IF DictGet(cur, Head(parts)) \in
               {None, Num(0), Bool(FALSE), Str(<<>>), List(<<>>), Map(<<>>)}
         THEN None
    ELSE LookupPartsTruthy(DictGet(cur, Head(parts)), Tail(parts))

RECURSIVE LookupParts(_, _)
\* the loop over parts: cur is the node reached, parts the segments left
LookupParts(cur, parts) ==
    IF parts = <<>> THEN cur
    ELSE IF ~IsDict(cur) THEN None
    ELSE IF DictGet(cur, Head(parts)) = None THEN None
    ELSE LookupParts(DictGet(cur, Head(parts)), Tail(parts))

RECURSIVE LookupPartsNoTypeCheck(_, _)
\* the loop with "return cur" where a node that is no dict should give None
LookupPartsNoTypeCheck(cur, parts) ==
    IF parts = <<>> THEN cur
    ELSE IF ~IsDict(cur) THEN cur
    ELSE IF DictGet(cur, Head(parts)) = None THEN None
    ELSE LookupPartsNoTypeCheck(DictGet(cur, Head(parts)), Tail(parts))

\* _lookup_context over that loop
LookupNoTypeCheck(ctx, key) == LookupPartsNoTypeCheck(ctx, Split(key))

_lookup_context(ctx, key) == LookupParts(ctx, Split(key))

(***************************************************************************)
(* PLACEHOLDER_PATTERN and finditer.                                       *)
(***************************************************************************)
RECURSIVE SkipWhile(_, _, _)
\* the offset after the longest run of characters of set S from offset i
SkipWhile(s, i, S) == IF At(s, i) \in S THEN SkipWhile(s, i + 1, S) ELSE i

\* MatchAt with the key class written without the dot: [a-zA-Z0-9_]+
MatchAtNoDot(s, i) ==
    IF ~(At(s, i) = "{" /\ At(s, i + 1) = "{") THEN <<-1, <<>>>>
    ELSE LET k0 == SkipWhile(s, i + 2, ReSpace)
             k1 == SkipWhile(s, k0, KeyChars \ {"."})
             e0 == SkipWhile(s, k1, ReSpace)
         IN IF k1 > k0 /\ At(s, e0) = "}" /\ At(s, e0 + 1) = "}"
            THEN <<e0 + 2, Slice(s, k0, k1)>>
            ELSE <<-1, <<>>>>

\* PLACEHOLDER_PATTERN.match(s, i): <<end, key>> of the match that starts
\* at offset i, or <<-1, <<>>>>.  \s, the key class and "}" are disjoint,
\* so the greedy runs never give characters back.
MatchAt(s, i) ==
    IF ~(At(s, i) = "{" /\ At(s, i + 1) = "{") THEN <<-1, <<>>>>
    ELSE LET k0 == SkipWhile(s, i + 2, ReSpace)
             k1 == SkipWhile(s, k0, KeyChars)
             e0 == SkipWhile(s, k1, ReSpace)
         IN IF k1 > k0 /\ At(s, e0) = "}" /\ At(s, e0 + 1) = "}"
            THEN <<e0 + 2, Slice(s, k0, k1)>>
            ELSE <<-1, <<>>>>

\* whether the pattern matches at some offset >= pos
HasMatch(s, pos) == \E i \in pos..(Len(s) - 1) : MatchAt(s, i)[1] >= 0

\* the next item of finditer from offset pos: the leftmost match
NextMatch(s, pos) ==
    LET i == CHOOSE j \in pos..(Len(s) - 1) :
                 /\ MatchAt(s, j)[1] >= 0
                 /\ \A h \in pos..(j - 1) : MatchAt(s, h)[1] < 0
    IN [start |-> i, end |-> MatchAt(s, i)[1], key |-> MatchAt(s, i)[2]]

(***************************************************************************)
(* json.loads(filled): the decoder render_template ends with.  A parse     *)
(* step gives [ok, v, end]: whether it matched, the value, the offset      *)
(* after it.                                                               *)
(***************************************************************************)
Fail == [ok |-> FALSE]
Ok(x, e) == [ok |-> TRUE, v |-> x, end |-> e]

\* the decoder's whitespace
JsonSpace == {" ", TAB, LF, CR}
\* characters below U+0020, which a strict string may not hold
Controls == {LF, SOH, TAB, CR, BS, FF}

LowerSeq == <<"a","b","c","d","e","f","g","h","i","j","k","l","m",
              "n","o","p","q","r","s","t","u","v","w","x","y","z">>
UpperSeq == <<"A","B","C","D","E","F","G","H","I","J","K","L","M",
              "N","O","P","Q","R","S","T","U","V","W","X","Y","Z">>
DigitSeq == <<"0","1","2","3","4","5","6","7","8","9">>

\* the value of a decimal digit
DigitVal(c) == CHOOSE d \in 0..9 : DigitSeq[d + 1] = c
IsHex(c) == c \in Digits \cup {"a","b","c","d","e","f","A","B","C","D","E","F"}
HexVal(c) ==
    IF c \in Digits THEN DigitVal(c)
    ELSE IF c \in Lower THEN 9 + (CHOOSE i \in 1..6 : LowerSeq[i] = c)
    ELSE 9 + (CHOOSE i \in 1..6 : UpperSeq[i] = c)

\* chr(n) over the characters of the model; another code point is its own
\* character, named by its number (surrogate pairs are not joined)
CodeChar(n) ==
    IF n >= 97 /\ n <= 122 THEN LowerSeq[n - 96]
    ELSE IF n >= 65 /\ n <= 90 THEN UpperSeq[n - 64]
    ELSE IF n >= 48 /\ n <= 57 THEN DigitSeq[n - 47]
    ELSE CASE n = 1 -> SOH [] n = 8 -> BS [] n = 9 -> TAB [] n = 10 -> LF
           [] n = 12 -> FF [] n = 13 -> CR [] n = 32 -> " " [] n = 34 -> QUOTE
           [] n = 43 -> "+" [] n = 44 -> "," [] n = 45 -> "-" [] n = 46 -> "."
           [] n = 47 -> "/" [] n = 58 -> ":" [] n = 91 -> "["
           [] n = 92 -> BACKSLASH [] n = 93 -> "]" [] n = 95 -> "_"
           [] n = 123 -> "{" [] n = 125 -> "}"
           [] OTHER -> "U+" \o ToString(n)

RECURSIVE ScanString(_, _, _)
\* scanstring(s, i, strict=True): i is the offset after the opening quote,
\* acc the characters decoded so far
ScanString(s, i, acc) ==
    LET c == At(s, i)
        esc == At(s, i + 1)
    IN IF c = "" THEN Fail
       ELSE IF c = QUOTE THEN Ok(acc, i + 1)
       ELSE IF c \in Controls THEN Fail
       ELSE IF c # BACKSLASH THEN ScanString(s, i + 1, Append(acc, c))
       ELSE IF esc = "" THEN Fail
       ELSE IF esc \in {QUOTE, BACKSLASH, "/"}
            THEN ScanString(s, i + 2, Append(acc, esc))
       ELSE IF esc = "n" THEN ScanString(s, i + 2, Append(acc, LF))
       ELSE IF esc = "r" THEN ScanString(s, i + 2, Append(acc, CR))
       ELSE IF esc = "t" THEN ScanString(s, i + 2, Append(acc, TAB))
       ELSE IF esc = "b" THEN ScanString(s, i + 2, Append(acc, BS))
       ELSE IF esc = "f" THEN ScanString(s, i + 2, Append(acc, FF))
       ELSE IF esc = "u"
            THEN IF \A k \in 2..5 : IsHex(At(s, i + k))
                 THEN ScanString(s, i + 6,
                        Append(acc, CodeChar(
                            HexVal(At(s, i + 2)) * 4096
                            + HexVal(At(s, i + 3)) * 256
                            + HexVal(At(s, i + 4)) * 16
                            + HexVal(At(s, i + 5)))))
                 ELSE Fail
       ELSE Fail

RECURSIVE DigitsValue(_, _)
\* int() of a run of decimal digits, acc being the value read so far
DigitsValue(ds, acc) ==
    IF ds = <<>> THEN acc
    ELSE DigitsValue(Tail(ds), acc * 10 + DigitVal(Head(ds)))

\* NUMBER_RE.match(s, i):
\*   (-?(?:0|[1-9][0-9]*))(\.[0-9]+)?([eE][-+]?[0-9]+)?
\* an int when only the integer part matched, a float else
ScanNumber(s, i) ==
    LET neg == At(s, i) = "-"
        i0 == IF neg THEN i + 1 ELSE i
        i1 == IF At(s, i0) = "0" THEN i0 + 1
              ELSE IF At(s, i0) \in Digits THEN SkipWhile(s, i0, Digits)
              ELSE i0
        f1 == IF At(s, i1) = "." /\ At(s, i1 + 1) \in Digits
              THEN SkipWhile(s, i1 + 1, Digits) ELSE i1
        x0 == IF At(s, f1 + 1) \in {"+", "-"} THEN f1 + 2 ELSE f1 + 1
        e1 == IF At(s, f1) \in {"e", "E"} /\ At(s, x0) \in Digits
              THEN SkipWhile(s, x0, Digits) ELSE f1
        mag == DigitsValue(Slice(s, i0, i1), 0)
    IN IF i1 = i0 THEN Fail
       ELSE IF e1 = i1 THEN Ok(Num(IF neg THEN 0 - mag ELSE mag), i1)
       ELSE Ok([t |-> "float", v |-> Slice(s, i, e1)], e1)

\* s[i:i+len(w)] == w
StartsWith(s, i, w) ==
    /\ i + Len(w) <= Len(s)
    /\ Slice(s, i, i + Len(w)) = w

RECURSIVE ScanOnce(_, _)
RECURSIVE ArrayItems(_, _, _)
RECURSIVE ObjectPairs(_, _, _)
\* JSONArray's loop: i is the offset of the next element, acc the elements
\* read so far
ArrayItems(s, i, acc) ==
    LET r == ScanOnce(s, i)
        j == SkipWhile(s, r.end, JsonSpace)
    IN IF ~r.ok THEN Fail
       ELSE IF At(s, j) = "]" THEN Ok(List(Append(acc, r.v)), j + 1)
       ELSE IF At(s, j) = ","
            THEN ArrayItems(s, SkipWhile(s, j + 1, JsonSpace), Append(acc, r.v))
       ELSE Fail
\* JSONObject's loop: i is the offset after the opening quote of the next
\* key, acc the dict built so far
ObjectPairs(s, i, acc) ==
    LET k == ScanString(s, i, <<>>)
        j == SkipWhile(s, k.end, JsonSpace)
        r == ScanOnce(s, SkipWhile(s, j + 1, JsonSpace))
        j3 == SkipWhile(s, r.end, JsonSpace)
        j4 == SkipWhile(s, j3 + 1, JsonSpace)
    IN IF ~k.ok THEN Fail
       ELSE IF At(s, j) # ":" THEN Fail
       ELSE IF ~r.ok THEN Fail
       ELSE IF At(s, j3) = "}" THEN Ok(DictSet(acc, k.v, r.v), j3 + 1)
       ELSE IF At(s, j3) = "," /\ At(s, j4) = QUOTE
            THEN ObjectPairs(s, j4 + 1, DictSet(acc, k.v, r.v))
       ELSE Fail
\* scan_once(s, i): the value that starts at offset i
ScanOnce(s, i) ==
    LET c == At(s, i)
        j == SkipWhile(s, i + 1, JsonSpace)
    IN IF c = QUOTE
       THEN LET r == ScanString(s, i + 1, <<>>)
            IN IF r.ok THEN Ok(Str(r.v), r.end) ELSE Fail
       ELSE IF c = "{"
            THEN IF At(s, j) = "}" THEN Ok(Map(<<>>), j + 1)
                 ELSE IF At(s, j) = QUOTE THEN ObjectPairs(s, j + 1, Map(<<>>))
                 ELSE Fail
       ELSE IF c = "["
            THEN IF At(s, j) = "]" THEN Ok(List(<<>>), j + 1)
                 ELSE ArrayItems(s, j, <<>>)
       ELSE IF StartsWith(s, i, <<"n","u","l","l">>) THEN Ok(None, i + 4)
       ELSE IF StartsWith(s, i, <<"t","r","u","e">>) THEN Ok(Bool(TRUE), i + 4)
       ELSE IF StartsWith(s, i, <<"f","a","l","s","e">>)
            THEN Ok(Bool(FALSE), i + 5)
       ELSE IF ScanNumber(s, i).ok THEN ScanNumber(s, i)
       ELSE IF StartsWith(s, i, <<"N","a","N">>)
            THEN Ok([t |-> "float", v |-> <<"N","a","N">>], i + 3)
       ELSE IF StartsWith(s, i, <<"I","n","f","i","n","i","t","y">>)
            THEN Ok([t |-> "float", v |-> Slice(s, i, i + 8)], i + 8)
       ELSE IF StartsWith(s, i, <<"-","I","n","f","i","n","i","t","y">>)
            THEN Ok([t |-> "float", v |-> Slice(s, i, i + 9)], i + 9)
       ELSE Fail

\* Loads that returns the first value of the text and ignores what follows
LoadsPrefix(s) ==
    LET r == ScanOnce(s, SkipWhile(s, 0, JsonSpace))
    IN IF r.ok THEN [kind |-> "returned", value |-> r.v]
       ELSE [kind |-> "raised", doc |-> s]

\* json.loads(s): the value of the whole text, or the failure
\* JSONDecodeError, which holds the text it was given as its doc
Loads(s) ==
    LET r == ScanOnce(s, SkipWhile(s, 0, JsonSpace))
    IN IF r.ok /\ SkipWhile(s, r.end, JsonSpace) = Len(s)
       THEN [kind |-> "returned", value |-> r.v]
       ELSE [kind |-> "raised", doc |-> s]

(***************************************************************************)
(* render_template                                                         *)
(***************************************************************************)
\* InsideQuotes with the character after the match left unread
InsideQuotesBeforeOnly(text, start, end) ==
    start > 0 /\ text[start] = QUOTE

\* lines 62-66: the placeholder at [start, end) counts as inside quotes
\* when the characters next to it on both sides are double quotes
InsideQuotes(text, start, end) ==
    LET before == Slice(text, 0, start)
        after == Slice(text, end, Len(text))
        char_before == IF before # <<>> THEN before[Len(before)] ELSE ""
        char_after == IF after # <<>> THEN after[1] ELSE ""
    IN char_before = QUOTE /\ char_after = QUOTE

\* MissingText with the quoting ignored
MissingTextAlwaysNull(inside_quotes) == <<"n", "u", "l", "l">>

\* lines 72-76: the text appended for a missing value
MissingText(inside_quotes) ==
    IF inside_quotes THEN <<>> ELSE <<"n", "u", "l", "l">>

\* CompositeText written with str(value): Python's repr, single-quoted
CompositeTextRepr(value) ==
    LET d == Dumps(value)
    IN [i \in 1..Len(d) |-> IF d[i] = QUOTE THEN "'" ELSE d[i]]

\* CompositeText with the literal escaped for a string slot
CompositeTextEscaped(value) == EscapeStr(Dumps(value))

\* lines 81-82: the text appended for a list or dict
CompositeText(value) == Dumps(value)

\* PrimitiveText that never strips the outer quotes
PrimitiveTextKeepQuotes(value, inside_quotes) == Dumps(value)

\* PrimitiveText that strips the first and last character of every literal
\* in a quoted slot, a str's or not
PrimitiveTextStripAlways(value, inside_quotes) ==
    LET json_prim == Dumps(value)
    IN IF inside_quotes /\ Len(json_prim) >= 2
       THEN Slice(json_prim, 1, Len(json_prim) - 1)
       ELSE json_prim

\* lines 88-98: the text appended for a str, int or bool
PrimitiveText(value, inside_quotes) ==
    LET json_prim == Dumps(value)
    IN IF inside_quotes
       THEN IF /\ Len(json_prim) >= 2
               /\ json_prim[1] = QUOTE
               /\ json_prim[Len(json_prim)] = QUOTE
            THEN Slice(json_prim, 1, Len(json_prim) - 1)
            ELSE json_prim
       ELSE json_prim

\* Iterate with the literal taken from the start of the template instead
\* of from last_index
IterateLiteralFromStart(m, value, text) ==
    LET literal == Slice(template_text, 0, m.start)
        inside == InsideQuotes(template_text, m.start, m.end)
    IN /\ filled_parts' = filled_parts \o <<literal, text>>
       /\ last_index' = m.end
       /\ subs' = Append(subs,
                    [start |-> m.start, end |-> m.end, key |-> m.key,
                     inside_quotes |-> inside, value |-> value,
                     text |-> text,
                     at |-> Len(Join(filled_parts)) + Len(literal)])
       /\ UNCHANGED <<template_text, context, pc, filled, result, call>>

\* one iteration of the loop at lines 54-100 for match m, whose looked-up
\* value is value and whose replacement is text
Iterate(m, value, text) ==
    LET literal == Slice(template_text, last_index, m.start)
        inside == InsideQuotes(template_text, m.start, m.end)
    IN /\ filled_parts' = filled_parts \o <<literal, text>>
       /\ last_index' = m.end
       /\ subs' = Append(subs,
                    [start |-> m.start, end |-> m.end, key |-> m.key,
                     inside_quotes |-> inside, value |-> value,
                     text |-> text,
                     at |-> Len(Join(filled_parts)) + Len(literal)])
       /\ UNCHANGED <<template_text, context, pc, filled, result, call>>

\* lines 54-78: the next placeholder resolves to None
SubstituteMissing ==
    /\ pc = "scan"
    /\ HasMatch(template_text, last_index)
    /\ LET m == NextMatch(template_text, last_index)
           value == _lookup_context(context, m.key)
       IN /\ value = None
          /\ Iterate(m, value,
                 MissingText(InsideQuotes(template_text, m.start, m.end)))

\* lines 54-69, 80-84: the next placeholder resolves to a list or dict
SubstituteComposite ==
    /\ pc = "scan"
    /\ HasMatch(template_text, last_index)
    /\ LET m == NextMatch(template_text, last_index)
           value == _lookup_context(context, m.key)
       IN /\ value # None
          /\ IsComposite(value)
          /\ Iterate(m, value, CompositeText(value))

\* lines 54-69, 86-100: the next placeholder resolves to a str, int or bool
SubstitutePrimitive ==
    /\ pc = "scan"
    /\ HasMatch(template_text, last_index)
    /\ LET m == NextMatch(template_text, last_index)
           value == _lookup_context(context, m.key)
       IN /\ value # None
          /\ ~IsComposite(value)
          /\ Iterate(m, value,
                 PrimitiveText(value,
                     InsideQuotes(template_text, m.start, m.end)))

RECURSIVE RenderFrom(_, _)
\* the text from offset from on, with every placeholder of text replaced
RenderFrom(text, from) ==
    IF ~HasMatch(text, from) THEN Slice(text, from, Len(text))
    ELSE LET m == NextMatch(text, from)
             value == _lookup_context(context, m.key)
             inside == InsideQuotes(text, m.start, m.end)
         IN Slice(text, from, m.start)
            \o (IF value = None THEN MissingText(inside)
                ELSE IF IsComposite(value) THEN CompositeText(value)
                ELSE PrimitiveText(value, inside))
            \o RenderFrom(text, m.end)

\* Assemble that scans the joined text for placeholders once more
AssembleRescan(parts, text, from) ==
    RenderFrom(Join(parts) \o Slice(text, from, Len(text)), 0)

\* Assemble without the text after the last placeholder
AssembleNoRemainder(parts, text, from) == Join(parts)

\* lines 102-104: the parts with the rest of the template, joined
Assemble(parts, text, from) == Join(Append(parts, Slice(text, from, Len(text))))

\* lines 102-107: no placeholder is left; the remainder is appended, the
\* parts are joined and the text is parsed: the call returns the parsed
\* value or raises the decoder's error
Finish ==
    /\ pc = "scan"
    /\ ~HasMatch(template_text, last_index)
    /\ filled_parts' = Append(filled_parts,
                          Slice(template_text, last_index, Len(template_text)))
    /\ filled' = Assemble(filled_parts, template_text, last_index)
    /\ result' = Loads(filled')
    /\ pc' = result'.kind
    /\ UNCHANGED <<template_text, context, last_index, subs, call>>

(***************************************************************************)
(* The inputs of a call.                                                   *)
(***************************************************************************)
\* characters of the str values: a plain one, the two the encoder must
\* escape with a backslash, and two control characters
StrChars == {"x", QUOTE, BACKSLASH, LF, SOH}

RECURSIVE SeqsUpTo(_, _)
\* the sequences over S of length at most n
SeqsUpTo(S, n) ==
    IF n = 0 THEN {<<>>}
    ELSE LET shorter == SeqsUpTo(S, n - 1)
         IN shorter \cup {Append(q, c) : q \in shorter, c \in S}

StrValues == {Str(q) : q \in SeqsUpTo(StrChars, MaxStrLen)}
NumValues == {Num(0), Num(42), Num(-7)}
BoolValues == {Bool(TRUE), Bool(FALSE)}
ScalarValues == StrValues \cup NumValues \cup BoolValues

\* what the lists and dicts of the contexts hold
Items == {Str(<<"a">>), Str(<<"b">>), Num(1), None}
ListValues == {List(q) : q \in SeqsUpTo(Items, MaxSeqLen)}
              \cup {List(<<List(<<Num(1)>>), List(<<>>)>>)}
MapValues ==
    {Map(<<>>)}
    \cup {Map(<< <<<<"b">>, x>> >>) : x \in Items \cup NumValues \cup BoolValues}
    \cup {Map(<< <<<<"b">>, Map(<< <<<<"c">>, x>> >>)>> >>) :
             x \in {Num(42), Bool(TRUE), Str(<<"x">>), None, List(<<Num(1)>>)}}
    \cup {Map(<< <<<<"b">>, List(<<Str(<<"a">>), Str(<<"b">>)>>)>>,
                 <<<<"m">>, Num(1)>> >>)}

Values == {None} \cup ScalarValues \cup ListValues \cup MapValues

\* the contexts: a dict, empty or with a value under "a"
\* placeholder tokens
PhA == <<"{", "{", "a", "}", "}">>
PhAB == <<"{", "{", " ", "a", ".", "b", LF, "}", "}">>
PhABC == <<"{", "{", "a", ".", "b", ".", "c", "}", "}">>
Placeholders == {PhA, PhAB, PhABC}

\* str values that hold a placeholder token, with the key it names present
PhD == <<"{", "{", "d", "}", "}">>
TokenContexts ==
    { Map(<< <<<<"a">>, Str(PhD)>>, <<<<"d">>, Str(<<"x">>)>> >>),
      Map(<< <<<<"a">>, Str(PhA)>> >>),
      Map(<< <<<<"a">>, Map(<< <<<<"b">>, Str(<<"x">> \o PhD)>> >>)>>,
             <<<<"d">>, Num(1)>> >>),
      Map(<< <<<<"a">>, List(<<Str(PhD)>>)>>, <<<<"d">>, Num(1)>> >>) }

Contexts ==
    {Map(<<>>)} \cup {Map(<< <<<<"a">>, x>> >>) : x \in Values}
    \cup TokenContexts

\* the text around one placeholder: <<before, after>>
Frames ==
    { <<<<>>, <<>>>>,
      <<<<QUOTE>>, <<QUOTE>>>>,
      <<<<QUOTE>>, <<>>>>,
      <<<<>>, <<QUOTE>>>>,
      <<<<"[">>, <<"]">>>>,
      <<<<"[", QUOTE>>, <<QUOTE, "]">>>>,
      <<<<" ">>, <<LF>>>>,
      <<<<QUOTE, " ">>, <<" ", QUOTE>>>>,
      <<<<QUOTE, "H", "i", " ">>, <<QUOTE>>>>,
      <<<<QUOTE>>, <<"!", QUOTE>>>>,
      <<<<"{", QUOTE, "k", QUOTE, ":", " ">>, <<"}">>>>,
      <<<<"{", QUOTE, "k", QUOTE, ":", " ", QUOTE>>, <<QUOTE, "}">>>>,
      <<<<"{", QUOTE>>, <<QUOTE, ":", " ", "1", "}">>>>,
      <<<<"[", "{", "{", "}", "}", ",", " ">>, <<"]">>>> }

\* keys with empty segments
PhDots == <<"{", "{", "a", ".", ".", "b", "}", "}">>
PhDot == <<"{", "{", ".", "}", "}">>

OneSlotTemplates ==
    {f[1] \o p \o f[2] : f \in Frames, p \in Placeholders}
    \cup {PhDots, <<QUOTE>> \o PhDot \o <<QUOTE>>}

\* two placeholders in one template: <<before, between, after>>
Frames2 ==
    { <<<<QUOTE>>, <<>>, <<QUOTE>>>>,
      <<<<"[">>, <<",", " ">>, <<"]">>>>,
      <<<<"[", QUOTE>>, <<QUOTE, ",", " ">>, <<"]">>>>,
      <<<<"[">>, <<",", " ", QUOTE>>, <<QUOTE, "]">>>>,
      <<<<"[", QUOTE>>, <<QUOTE, ",", " ", QUOTE>>, <<QUOTE, "]">>>>,
      <<<<"{", QUOTE, "k", QUOTE, ":", " ", QUOTE>>,
        <<QUOTE, ",", " ", QUOTE, "m", QUOTE, ":", " ">>, <<"}">>>> }

TwoSlotTemplates ==
    {f[1] \o p[1] \o f[2] \o p[2] \o f[3] :
        f \in Frames2, p \in {<<PhA, PhA>>, <<PhA, PhAB>>, <<PhABC, PhA>>}}

\* templates without a placeholder: the encoder's text of a value, and
\* texts that are not JSON or hold brace tokens the pattern does not match
PlainTemplates ==
    {Dumps(x) : x \in Values}
    \cup { <<>>,
           <<"[", "1", ","," ", "]">>,
           <<"{", "{", "}", "}">>,
           <<QUOTE, "{", "{", "a", "-", "b", "}", "}", QUOTE>>,
           <<"[", QUOTE, "{", "{", " ", "}", "}", QUOTE, ",", " ",
             QUOTE, "{", "a", "}", "}", QUOTE, "]">>,
           <<"{", QUOTE, "k", QUOTE, ":", " ", "1", ",", " ",
             QUOTE, "k", QUOTE, ":", " ", "2", "}">>,
           <<" ", "[", "1", ".", "5", ",", LF, "-", "2", "e", "3", "]", " ">>,
           <<QUOTE, "a", LF, QUOTE>> }

SlotTemplates == OneSlotTemplates \cup TwoSlotTemplates

\* the contexts tried with the templates without a placeholder, where the
\* loop body, the only reader of the context, never runs
PlainContexts ==
    {Map(<<>>)}
    \cup {Map(<< <<<<"a">>, x>> >>) :
             x \in NumValues \cup BoolValues
                   \cup {None, Str(<<"x">>), Str(<<QUOTE, BACKSLASH>>),
                         List(<<Str(<<"a">>), Str(<<"b">>)>>),
                         Map(<< <<<<"b">>, Num(1)>> >>)}}

Init ==
    /\ \/ /\ template_text \in SlotTemplates
          /\ context \in Contexts
       \/ /\ template_text \in PlainTemplates
          /\ context \in PlainContexts
    /\ pc = "scan"
    /\ last_index = 0
    /\ filled_parts = <<>>
    /\ filled = <<>>
    /\ result = [kind |-> "none"]
    /\ subs = <<>>
    /\ call = [fn |-> "render_template"]

Next ==
    \/ SubstituteMissing
    \/ SubstituteComposite
    \/ SubstitutePrimitive
    \/ Finish

Spec == Init /\ [][Next]_vars

(***************************************************************************)
(* Properties.                                                             *)
(***************************************************************************)
Done == pc \in {"returned", "raised"}

\* the characters next to the match [start, end) in text are both double
\* quotes, read off the template by offset
QuoteNeighbours(text, start, end) ==
    /\ start >= 1
    /\ text[start] = QUOTE
    /\ end < Len(text)
    /\ text[end + 1] = QUOTE

\* the text of the literal null
NullText == <<"n", "u", "l", "l">>

\* C1: a placeholder whose key resolves to missing is replaced by nothing
\* when it is quoted, so that the template's quotes stand as "" in the
\* assembled text, and by the text null when it is unquoted; the call goes
\* on, and a template that is just that slot returns "" or null.
C1_MissingPlaceholder ==
    \A i \in DOMAIN subs :
        LET u == subs[i]
            quoted == QuoteNeighbours(template_text, u.start, u.end)
        IN _lookup_context(context, u.key) = None =>
             /\ u.text = IF quoted THEN <<>> ELSE NullText
             /\ ~Done => result.kind = "none"
             /\ Done /\ quoted =>
                  /\ At(filled, u.at - 1) = QUOTE
                  /\ At(filled, u.at) = QUOTE
             /\ Done /\ ~quoted =>
                  Slice(filled, u.at, u.at + 4) = NullText
             /\ Done /\ quoted /\ u.start = 1 /\ u.end = Len(template_text) - 1
                  => result = [kind |-> "returned", value |-> Str(<<>>)]
             /\ Done /\ u.start = 0 /\ u.end = Len(template_text)
                  => result = [kind |-> "returned", value |-> None]

\* a call returned a document in which one missing placeholder was quoted
\* and another unquoted
C1_Witness ==
    /\ pc = "returned"
    /\ \E i, j \in DOMAIN subs :
          /\ subs[i].value = None /\ subs[i].inside_quotes
          /\ subs[j].value = None /\ ~subs[j].inside_quotes
          /\ subs[i].text = <<>> /\ subs[j].text = NullText

\* C2: a placeholder is treated as string-quoted exactly when the one
\* character before the match and the one character after it are double
\* quotes: a missing value leaves the slot empty, and a str value goes in
\* without its outer quotes, in that case and in no other.
C2_QuotedIffNeighbours ==
    \A i \in DOMAIN subs :
        LET u == subs[i]
            quoted == QuoteNeighbours(template_text, u.start, u.end)
        IN /\ u.inside_quotes <=> quoted
           /\ u.value = None => (u.text = <<>> <=> quoted)
           /\ u.value.t = "str" =>
                /\ quoted => u.text = EscapeStr(u.value.v)
                /\ ~quoted => u.text = DumpsStr(u.value.v)

\* a placeholder at the very start of the template, followed by a double
\* quote, was taken as unquoted
C2_Witness ==
    /\ Done
    /\ \E i \in DOMAIN subs :
          /\ subs[i].start = 0
          /\ At(template_text, subs[i].end) = QUOTE
          /\ ~subs[i].inside_quotes
          /\ subs[i].value.t = "str"
          /\ subs[i].text = DumpsStr(subs[i].value.v)

\* the double quotes before offset pos, counted
RECURSIVE QuotesBefore(_, _)
QuotesBefore(text, pos) ==
    IF pos = 0 THEN 0
    ELSE QuotesBefore(text, pos - 1) + (IF text[pos] = QUOTE THEN 1 ELSE 0)

\* offset pos lies inside a string literal of text (the templates with
\* placeholders hold no backslash, so every double quote delimits)
InLiteral(text, pos) == QuotesBefore(text, pos) % 2 = 1

RECURSIVE Filled(_, _, _)
\* text from offset pos with every placeholder replaced by w
Filled(text, pos, w) ==
    IF HasMatch(text, pos)
    THEN LET m == NextMatch(text, pos)
         IN Slice(text, pos, m.start) \o w \o Filled(text, m.end, w)
    ELSE Slice(text, pos, Len(text))

\* the template is well-formed JSON around its placeholders: it parses
\* once each placeholder is replaced by a letter
WellFormedAround(text) == Loads(Filled(text, 0, <<"x">>)).kind = "returned"

\* C3: a placeholder inside a string literal of a well-formed template,
\* resolving to a str, is replaced by the escaped inner content of the str
\* without outer quotes, and the assembled text parses.
C3_InsideLiteralInjectsInner ==
    WellFormedAround(template_text) =>
      \A i \in DOMAIN subs :
        LET u == subs[i]
        IN InLiteral(template_text, u.start) /\ u.value.t = "str" =>
             /\ u.text = EscapeStr(u.value.v)
             /\ Done /\ Len(subs) = 1 => result.kind = "returned"

\* the JSON token that stands in the slot of substitution u: its text,
\* within the template's quotes when the slot is quoted
SlotText(u) ==
    IF QuoteNeighbours(template_text, u.start, u.end)
    THEN <<QUOTE>> \o u.text \o <<QUOTE>>
    ELSE u.text

\* the template with the slot of u (the placeholder, and its quotes when
\* quoted) replaced by the number 0, which no template holds
Skeleton(u) ==
    LET q == IF QuoteNeighbours(template_text, u.start, u.end) THEN 1 ELSE 0
    IN Slice(template_text, 0, u.start - q) \o <<"0">>
       \o Slice(template_text, u.end + q, Len(template_text))

RECURSIVE Holds0(_)
\* value x holds the number 0 as an element or item value
Holds0(x) ==
    IF x.t = "list" THEN \E i \in DOMAIN x.v : Holds0(x.v[i])
    ELSE IF x.t = "map" THEN \E i \in DOMAIN x.v : Holds0(x.v[i][2])
    ELSE x = Num(0)

RECURSIVE Put(_, _)
\* value x with y in the place of the number 0
Put(x, y) ==
    IF x.t = "list" THEN List([i \in DOMAIN x.v |-> Put(x.v[i], y)])
    ELSE IF x.t = "map"
         THEN Map([i \in DOMAIN x.v |-> <<x.v[i][1], Put(x.v[i][2], y)>>])
    ELSE IF x = Num(0) THEN y ELSE x

\* when the only slot of the template stands where a JSON value stands,
\* the call returns the document with y at that position
ReturnsAtSlot(u, y) ==
    LET sk == Loads(Skeleton(u))
    IN Done /\ Len(subs) = 1 /\ sk.kind = "returned" /\ Holds0(sk.value)
         => result = [kind |-> "returned", value |-> Put(sk.value, y)]

\* C4: a placeholder resolving to a str s renders to a JSON string equal to
\* s, quoted (the inner content within the template's quotes) or unquoted
\* (the full literal): the slot parses to s, the assembled text holds the
\* substituted text at the slot, and the returned document holds s there.
C4_StringRoundTrip ==
    \A i \in DOMAIN subs :
        LET u == subs[i]
        IN u.value.t = "str" =>
             /\ Loads(SlotText(u)) = [kind |-> "returned", value |-> u.value]
             /\ Done => Slice(filled, u.at, u.at + Len(u.text)) = u.text
             /\ ReturnsAtSlot(u, u.value)

\* a str holding a double quote and a control character came back from a
\* quoted slot
C4_Witness ==
    /\ pc = "returned"
    /\ Len(subs) = 1
    /\ subs[1].inside_quotes
    /\ subs[1].value = Str(<<QUOTE, LF>>)
    /\ result.value = List(<<Str(<<QUOTE, LF>>)>>)

\* C5: a number or boolean reached by a dotted path renders unquoted to
\* itself and, in a quoted slot, to the JSON string that holds its literal
\* text; a.b.c -> 42 gives 42 and "42".
C5_NumberBoolean ==
    /\ \A i \in DOMAIN subs :
         LET u == subs[i]
             quoted == QuoteNeighbours(template_text, u.start, u.end)
         IN u.value.t \in {"num", "bool"} =>
              /\ Loads(u.text) = [kind |-> "returned", value |-> u.value]
              /\ quoted => Loads(SlotText(u))
                             = [kind |-> "returned", value |-> Str(u.text)]
              /\ ReturnsAtSlot(u, IF quoted THEN Str(u.text) ELSE u.value)
    /\ Done /\ context = Map(<< <<<<"a">>, Map(<< <<<<"b">>,
                           Map(<< <<<<"c">>, Num(42)>> >>)>> >>)>> >>)
         => /\ template_text = PhABC
              => result = [kind |-> "returned", value |-> Num(42)]
            /\ template_text = <<QUOTE>> \o PhABC \o <<QUOTE>>
              => result = [kind |-> "returned", value |-> Str(<<"4", "2">>)]

\* "{{a.b.c}}" over a -> {b -> {c -> 42}} returned the string "42"
C5_Witness ==
    /\ pc = "returned"
    /\ template_text = <<QUOTE>> \o PhABC \o <<QUOTE>>
    /\ subs[1].value = Num(42)
    /\ subs[1].key = <<"a", ".", "b", ".", "c">>
    /\ result.value = Str(<<"4", "2">>)

\* C6: a list or dict resolved by an unquoted placeholder renders to a JSON
\* value deep-equal to it; a list comes back with the same elements in the
\* same order.
C6_CompositeUnquoted ==
    \A i \in DOMAIN subs :
        LET u == subs[i]
            r == Loads(u.text)
        IN IsComposite(u.value)
           /\ ~QuoteNeighbours(template_text, u.start, u.end) =>
             /\ r.kind = "returned"
             /\ DeepEq(r.value, u.value)
             /\ u.value.t = "list" => r.value.v = u.value.v
             /\ ReturnsAtSlot(u, u.value)

\* the list ["a", "b"] came back in order from an unquoted slot
C6_Witness ==
    /\ pc = "returned"
    /\ Len(subs) = 1
    /\ ~subs[1].inside_quotes
    /\ subs[1].value = List(<<Str(<<"a">>), Str(<<"b">>)>>)
    /\ result.value = Map(<< <<<<"k">>, List(<<Str(<<"a">>), Str(<<"b">>)>>)>> >>)

RECURSIVE HasText(_)
\* the composite x holds a str or a dict key somewhere, so that its literal
\* holds a double quote
HasText(x) ==
    IF x.t = "list" THEN \E i \in DOMAIN x.v : HasText(x.v[i])
    ELSE IF x.t = "map" THEN x.v # <<>>
    ELSE x.t = "str"

\* the template is exactly one quoted slot, "{{key}}"
IsBareQuotedSlot(u) == u.start = 1 /\ u.end = Len(template_text) - 1

\* C7 as stated: whenever a composite was substituted into a quoted slot,
\* the call fails.
C7_QuotedCompositeAlwaysFails ==
    \A i \in DOMAIN subs :
        IsComposite(subs[i].value)
        /\ QuoteNeighbours(template_text, subs[i].start, subs[i].end)
        /\ Done
          => result.kind = "raised"

\* C7, amended: a composite in a quoted slot goes in as its literal, not
\* escaped.  When it holds a str or a dict key the literal holds a double
\* quote, the quoted slot is no JSON value, and a template that is just the
\* slot (or {"k": "{{a}}"} with a -> ["a", "b"]) fails; when it holds none
\* (an empty list or dict, a list of numbers or nulls) the slot is the JSON
\* string of the literal's text and the call returns a document.
C7_QuotedComposite ==
    /\ \A i \in DOMAIN subs :
         LET u == subs[i]
             slot == Loads(SlotText(u))
         IN IsComposite(u.value)
            /\ QuoteNeighbours(template_text, u.start, u.end) =>
              /\ Loads(u.text).kind = "returned"
              /\ DeepEq(Loads(u.text).value, u.value)
              /\ slot.kind = "raised" <=> HasText(u.value)
              /\ slot.kind = "returned" => slot.value = Str(u.text)
              /\ Done /\ IsBareQuotedSlot(u) =>
                   (result.kind = "raised" <=> HasText(u.value))
              /\ ~HasText(u.value) => ReturnsAtSlot(u, Str(u.text))
    /\ Done
       /\ template_text = <<"{", QUOTE, "k", QUOTE, ":", " ", QUOTE>>
                          \o PhA \o <<QUOTE, "}">>
       /\ context = Map(<< <<<<"a">>, List(<<Str(<<"a">>), Str(<<"b">>)>>)>> >>)
         => result.kind = "raised"

\* a list of numbers in a quoted slot came back as the string of its
\* literal
C7_Witness ==
    /\ pc = "returned"
    /\ Len(subs) = 1
    /\ subs[1].inside_quotes
    /\ subs[1].value = List(<<Num(1), Num(1)>>)
    /\ result.value = Map(<< <<<<"k">>, Str(<<"[", "1", ",", " ", "1", "]">>)>> >>)

\* C8: for a template without a placeholder the call gives what parsing
\* the template text gives, whatever the context; when the template is the
\* encoder's text of a value, the call returns a value deep-equal to it.
C8_NoPlaceholder ==
    Done /\ ~HasMatch(template_text, 0) =>
      /\ result = Loads(template_text)
      /\ \A x \in Values :
            template_text = Dumps(x) =>
              /\ result.kind = "returned"
              /\ DeepEq(result.value, x)

\* the text of a dict was rendered over a context that is not empty
C8_Witness ==
    /\ pc = "returned"
    /\ subs = <<>>
    /\ context # Map(<<>>)
    /\ template_text = Dumps(Map(<< <<<<"b">>, List(<<Str(<<"a">>), Str(<<"b">>)>>)>>,
                                    <<<<"m">>, Num(1)>> >>))
    /\ DeepEq(result.value,
              Map(<< <<<<"m">>, Num(1)>>,
                     <<<<"b">>, List(<<Str(<<"a">>), Str(<<"b">>)>>)>> >>))

RECURSIVE Replaced(_, _)
\* the template from offset pos with the substitutions us made in place
Replaced(pos, us) ==
    IF us = <<>> THEN Slice(template_text, pos, Len(template_text))
    ELSE Slice(template_text, pos, Head(us).start) \o Head(us).text
         \o Replaced(Head(us).end, Tail(us))

\* C9: a call ends in one of two ways: it returns the value of the whole
\* assembled text, or, the text being no JSON document, it raises a failure
\* that holds the complete assembled text; before that it has no outcome.
C9_TwoOutcomes ==
    /\ ~Done => result = [kind |-> "none"]
    /\ Done =>
         LET r == ScanOnce(filled, SkipWhile(filled, 0, JsonSpace))
             whole == r.ok /\ SkipWhile(filled, r.end, JsonSpace) = Len(filled)
         IN /\ filled = Replaced(0, subs)
            /\ \/ /\ pc = "returned"
                  /\ whole
                  /\ result = [kind |-> "returned", value |-> r.v]
               \/ /\ pc = "raised"
                  /\ ~whole
                  /\ result = [kind |-> "raised", doc |-> filled]

\* a call failed on a text that starts with a JSON value and goes on, and
\* the failure holds that whole text
C9_Witness ==
    /\ pc = "raised"
    /\ subs # <<>>
    /\ ScanOnce(filled, 0).ok
    /\ ScanOnce(filled, 0).end < Len(filled)
    /\ result.doc = filled

\* the node reached after each segment of parts, or Stuck once a step has
\* found no dict, no such key, or null
Stuck == [t |-> "stuck"]
Walk(ctx, parts) ==
    LET node[k \in 0..Len(parts)] ==
            IF k = 0 THEN ctx
            ELSE IF /\ node[k - 1].t = "map"
                    /\ HasKey(node[k - 1], parts[k])
                    /\ DictGet(node[k - 1], parts[k]) # None
                 THEN DictGet(node[k - 1], parts[k])
                 ELSE Stuck
    IN node

\* the segments of key: what lies between its dots
IsSplitOf(parts, key) ==
    /\ parts # <<>>
    /\ \A k \in DOMAIN parts : \A j \in DOMAIN parts[k] : parts[k][j] # "."
    /\ key = Join([k \in DOMAIN parts |->
                     IF k = 1 THEN parts[k] ELSE <<".">> \o parts[k]])

\* C10: _lookup_context walks the path segment by segment; it gives
\* missing exactly when at some step the node is no dict, or lacks the
\* segment, or holds null under it, and the leaf the whole path reaches in
\* every other case; the lookup raises nothing.
C10_Lookup ==
    /\ ~Done => result.kind = "none"
    /\ \A i \in DOMAIN subs :
         LET u == subs[i]
             parts == Split(u.key)
             node == Walk(context, parts)
             stops == \E k \in DOMAIN parts :
                         /\ node[k - 1] # Stuck
                         /\ \/ node[k - 1].t # "map"
                            \/ ~HasKey(node[k - 1], parts[k])
                            \/ DictGet(node[k - 1], parts[k]) = None
         IN /\ IsSplitOf(parts, u.key)
            /\ u.value = None <=> stops
            /\ ~stops => u.value = node[Len(parts)]

\* a.b.c was looked up where a.b is a number, not a dict, and gave missing
C10_Witness ==
    \E i \in DOMAIN subs :
        /\ subs[i].key = <<"a", ".", "b", ".", "c">>
        /\ _lookup_context(context, <<"a", ".", "b">>) = Num(1)
        /\ subs[i].value = None

\* text[a:b] has the form of a placeholder with key key: two opening
\* braces, whitespace, one or more key characters, whitespace, two closing
\* braces
IsToken(text, a, b, key) ==
    /\ b - a >= 5
    /\ At(text, a) = "{" /\ At(text, a + 1) = "{"
    /\ At(text, b - 2) = "}" /\ At(text, b - 1) = "}"
    /\ \E k0 \in (a + 2)..(b - 3) : \E k1 \in (k0 + 1)..(b - 2) :
          /\ \A j \in (a + 2)..(k0 - 1) : At(text, j) \in ReSpace
          /\ \A j \in k0..(k1 - 1) : At(text, j) \in KeyChars
          /\ \A j \in k1..(b - 3) : At(text, j) \in ReSpace
          /\ key = Slice(text, k0, k1)

\* text[a:b] has the form of a placeholder
IsSomeToken(text, a, b) ==
    /\ b - a >= 5
    /\ At(text, a) = "{" /\ At(text, a + 1) = "{"
    /\ At(text, b - 2) = "}" /\ At(text, b - 1) = "}"
    /\ \E k0 \in (a + 2)..(b - 3) : \E k1 \in (k0 + 1)..(b - 2) :
          /\ \A j \in (a + 2)..(k0 - 1) : At(text, j) \in ReSpace
          /\ \A j \in k0..(k1 - 1) : At(text, j) \in KeyChars
          /\ \A j \in k1..(b - 3) : At(text, j) \in ReSpace

\* C11: the placeholders substituted are exactly the tokens of the form
\* {{ + whitespace + key characters + whitespace + }}, taken left to right
\* without overlap: each substitution is such a token with that key, no
\* such token lies outside the substitutions, and all other text, brace
\* tokens of another form included, stands unchanged in the assembled
\* text.
C11_ScannerExact ==
    /\ \A i \in DOMAIN subs :
          /\ IsToken(template_text, subs[i].start, subs[i].end, subs[i].key)
          /\ i > 1 => subs[i - 1].end <= subs[i].start
    /\ \A a \in 0..(last_index - 1) : \A b \in (a + 5)..Len(template_text) :
          IsSomeToken(template_text, a, b) =>
             \E i \in DOMAIN subs : subs[i].start <= a /\ a < subs[i].end
    /\ Done =>
         /\ last_index = IF subs = <<>> THEN 0 ELSE subs[Len(subs)].end
         /\ \A a \in last_index..Len(template_text) :
               \A b \in (a + 5)..Len(template_text) :
                  ~IsSomeToken(template_text, a, b)
         /\ filled = Replaced(0, subs)
         /\ subs = <<>> => filled = template_text

\* a template with the brace token {{}}, which is no placeholder, and one
\* placeholder was rendered: one substitution, the token left as it was
C11_Witness ==
    /\ Done
    /\ Len(subs) = 1
    /\ Slice(template_text, 1, 5) = <<"{", "{", "}", "}">>
    /\ Slice(filled, 1, 5) = <<"{", "{", "}", "}">>
    /\ subs[1].start = 7

RECURSIVE Shift(_, _)
\* by how much the substitutions of us that end at or before template
\* offset p move the text that follows them
Shift(us, p) ==
    IF us = <<>> \/ Head(us).end > p THEN 0
    ELSE Len(Head(us).text) - (Head(us).end - Head(us).start)
         + Shift(Tail(us), p)

\* template offset p lies in no substituted range
Outside(p) == \A i \in DOMAIN subs : p < subs[i].start \/ subs[i].end <= p

\* the serialization the renderer gives a looked up value at a match
Serialization(value, inside) ==
    IF value = None THEN MissingText(inside)
    ELSE IF IsComposite(value) THEN CompositeText(value)
    ELSE PrimitiveText(value, inside)

\* out is the template up to offset upto with the substitutions in place
InPlace(out, upto) ==
    /\ Len(out) = upto + Shift(subs, upto)
    /\ \A p \in 0..(upto - 1) :
          Outside(p) => At(out, p + Shift(subs, p)) = At(template_text, p)
    /\ \A i \in DOMAIN subs :
          LET u == subs[i]
              to == u.start + Shift(subs, u.start)
          IN /\ u.at = to
             /\ Slice(out, to, to + Len(u.text)) = u.text
             /\ u.text = Serialization(_lookup_context(context, u.key),
                                       u.inside_quotes)

\* C17: the assembled text is the template with each placeholder replaced
\* in place by its serialization, left to right: every character outside
\* the placeholders stands exactly once, unchanged, in template order, and
\* each serialization stands where its placeholder stood; the parts joined
\* so far are that text up to the end of the last match.
C17_ReplacedInPlace ==
    /\ \A i \in DOMAIN subs : i > 1 => subs[i - 1].end <= subs[i].start
    /\ ~Done => InPlace(Join(filled_parts), last_index)
    /\ Done => InPlace(filled, Len(template_text))

\* two placeholders were replaced by texts of another length than theirs,
\* with template text before, between and after them
C17_Witness ==
    /\ Done
    /\ Len(subs) = 2
    /\ subs[1].start > 0
    /\ subs[1].end < subs[2].start
    /\ subs[2].end < Len(template_text)
    /\ Len(subs[1].text) # subs[1].end - subs[1].start
    /\ subs[2].at # subs[2].start

\* the scalars Python takes for false
FalsyScalars == {Num(0), Bool(FALSE), Str(<<>>)}

\* the text the specification gives for a falsy scalar
FalsyText(v, inside) ==
    IF v = Num(0) THEN <<"0">>
    ELSE IF v = Bool(FALSE) THEN <<"f", "a", "l", "s", "e">>
    ELSE IF inside THEN <<>> ELSE <<QUOTE, QUOTE>>

\* C18: only null and absent count as missing: a placeholder whose path
\* leads to 0, false or "" is given that value and its own text (0, false
\* and "" in an unquoted slot; 0, false and nothing between the quotes in
\* a quoted one), never null, and an empty list or dict is not missing
\* either; a template that is just the placeholder returns the value, or,
\* quoted, the strings "0", "false" and "".
C18_FalsyNotMissing ==
    /\ \A i \in DOMAIN subs :
         LET u == subs[i]
             parts == Split(u.key)
             leaf == Walk(context, parts)[Len(parts)]
         IN /\ u.value = None <=> leaf = Stuck
            /\ leaf \in {List(<<>>), Map(<<>>)} => u.value = leaf
            /\ leaf \in FalsyScalars =>
                  /\ u.value = leaf
                  /\ u.text = FalsyText(leaf, u.inside_quotes)
                  /\ u.text # NullText
    /\ \A v \in FalsyScalars :
         (Done /\ DictGet(context, <<"a">>) = v) =>
            /\ template_text = PhA =>
                  result = [kind |-> "returned", value |-> v]
            /\ template_text = <<QUOTE>> \o PhA \o <<QUOTE>> =>
                  result = [kind |-> "returned",
                            value |-> Str(FalsyText(v, TRUE))]

\* false was rendered in a quoted slot and the call returned the string
\* "false"
C18_Witness ==
    /\ Done
    /\ template_text = <<QUOTE>> \o PhA \o <<QUOTE>>
    /\ DictGet(context, <<"a">>) = Bool(FALSE)
    /\ subs[1].inside_quotes
    /\ result = [kind |-> "returned",
                 value |-> Str(<<"f", "a", "l", "s", "e">>)]

\* the offsets of text where a placeholder begins
TokenStarts(text) ==
    {a \in 0..(Len(text) - 1) :
        \E b \in (a + 5)..Len(text) : IsSomeToken(text, a, b)}

\* C19: substitution is a single pass and is not recursive: there are as
\* many substitutions as the template has placeholders, whatever the
\* values hold; a str value that holds a placeholder for a key that is
\* present stands in the assembled text as it is, braces included, also
\* within a list or dict, and is returned so by a template that is just
\* the placeholder.
C19_SinglePass ==
    /\ Len(subs) <= Cardinality(TokenStarts(template_text))
    /\ Done =>
         /\ Len(subs) = Cardinality(TokenStarts(template_text))
         /\ \A i \in DOMAIN subs :
              LET u == subs[i]
              IN (u.value.t = "str" /\ TokenStarts(u.value.v) # {}) =>
                    /\ u.text = IF u.inside_quotes THEN u.value.v
                                ELSE <<QUOTE>> \o u.value.v \o <<QUOTE>>
                    /\ u.at + Len(u.text) <= Len(filled)
                    /\ Slice(filled, u.at, u.at + Len(u.text)) = u.text
         /\ \A i \in DOMAIN subs :
              (context \in TokenContexts /\ subs[i].value # None) =>
                 /\ subs[i].at + Len(subs[i].text) <= Len(filled)
                 /\ TokenStarts(Slice(filled, subs[i].at,
                                      subs[i].at + Len(subs[i].text))) # {}
         /\ \A q \in {PhD, PhA} :
              (/\ DictGet(context, <<"a">>) = Str(q)
               /\ template_text \in {PhA, <<QUOTE>> \o PhA \o <<QUOTE>>}) =>
                 result = [kind |-> "returned", value |-> Str(q)]

\* a was "{{d}}" with d present, and the quoted placeholder of a returned
\* the string {{d}}
C19_Witness ==
    /\ Done
    /\ template_text = <<QUOTE>> \o PhA \o <<QUOTE>>
    /\ DictGet(context, <<"a">>) = Str(PhD)
    /\ DictGet(context, <<"d">>) = Str(<<"x">>)
    /\ Len(subs) = 1
    /\ result = [kind |-> "returned", value |-> Str(PhD)]

(***************************************************************************)
(* The other functions of the pipeline, each run as one call: the variable *)
(* call holds the function's name fn, its arguments, pc ("call" before it  *)
(* ran, "returned" or "raised" after) and its result.  The variables of    *)
(* render_template stand still meanwhile.                                  *)
(***************************************************************************)
renderVars == <<template_text, context, pc, last_index, filled_parts, filled,
                result, subs>>

\* no render_template call is in progress
RenderIdle ==
    /\ template_text = <<>>
    /\ context = Map(<<>>)
    /\ pc = "idle"
    /\ last_index = 0
    /\ filled_parts = <<>>
    /\ filled = <<>>
    /\ result = [kind |-> "none"]
    /\ subs = <<>>

NoResult == [kind |-> "none"]
Returned(v) == [kind |-> "returned", value |-> v]
Raised(exc, message) == [kind |-> "raised", exc |-> exc, message |-> message]

\* the call ends with outcome r
End(r) == call' = [call EXCEPT !.pc = r.kind, !.result = r]

(***************************************************************************)
(* load_template                                                           *)
(***************************************************************************)
\* the directory of the templates
TEMPLATES_DIR == "templates"

\* read_text that gives the characters as they are stored
ReadTextRaw(stored) == stored

RECURSIVE ReadText(_)
\* path.read_text(encoding="utf-8") of a file that holds the characters
\* stored: text mode with the default newline=None reads "\r\n" and a
\* lone "\r" as "\n"
ReadText(stored) ==
    IF stored = <<>> THEN <<>>
    ELSE IF Head(stored) = CR
    THEN IF Len(stored) >= 2 /\ stored[2] = LF
         THEN <<LF>> \o ReadText(Tail(Tail(stored)))
         ELSE <<LF>> \o ReadText(Tail(stored))
    ELSE <<Head(stored)>> \o ReadText(Tail(stored))

\* load_template that gives an empty template for a name it does not find
load_templateOrEmpty(store, name) ==
    IF name \notin DOMAIN store THEN Returned(<<>>)
    ELSE Returned(ReadText(store[name]))

\* load_template(name) over the files store of the templates directory
load_template(store, name) ==
    LET path == <<TEMPLATES_DIR, name>>
    IN IF name \notin DOMAIN store
       THEN Raised("FileNotFoundError", <<"Template not found: ", path>>)
       ELSE Returned(ReadText(store[name]))

\* the action of a load_template call
LoadTemplate ==
    /\ call.fn = "load_template"
    /\ call.pc = "call"
    /\ End(load_template(call.store, call.name))
    /\ UNCHANGED renderVars

\* the names asked for and the files there may be
TemplateNames == {"faq_template.json", "product_template.json"}
StoredTexts ==
    { <<>>,
      <<"{", "}">>,
      <<"[", LF, "]">>,
      <<"[", CR, LF, "]">>,
      <<"[", CR, "1", CR, CR, LF, LF, "]", CR>>,
      <<QUOTE, "{", "{", "a", "}", "}", QUOTE>> }
Stores == UNION {[S -> StoredTexts] : S \in SUBSET TemplateNames}

LoadCalls ==
    {[fn |-> "load_template", pc |-> "call", result |-> NoResult,
      name |-> n, store |-> st] :
        n \in TemplateNames, st \in Stores}

\* the offsets of stored that read_text keeps: all but a "\n" that follows
\* a "\r"
Kept(stored) ==
    {i \in DOMAIN stored : ~(stored[i] = LF /\ i > 1 /\ stored[i - 1] = CR)}

\* text is stored with every "\r\n" and every other "\r" read as "\n"
IsReadOf(text, stored) ==
    /\ Len(text) = Cardinality(Kept(stored))
    /\ \A i \in Kept(stored) :
          LET to == Cardinality({j \in Kept(stored) : j <= i})
          IN text[to] = IF stored[i] = CR THEN LF ELSE stored[i]

\* C14 as stated: load_template raises not-found at once, with no text
\* returned, when the named file does not exist, and returns the stored
\* text unchanged when it does.
C14_ReturnsUnchanged ==
    (call.fn = "load_template" /\ call.pc # "call") =>
       IF call.name \in DOMAIN call.store
       THEN call.result = Returned(call.store[call.name])
       ELSE /\ call.result.kind = "raised"
            /\ call.result.exc = "FileNotFoundError"

\* C14: load_template raises not-found at once, with no text returned,
\* when the named file does not exist; when it does, it returns the stored
\* text as text mode reads it: unchanged but for "\r\n" and "\r", which
\* both come back as "\n".
C14_LoadTemplate ==
    /\ (call.fn = "load_template" /\ call.pc = "call") =>
          call.result = NoResult
    /\ (call.fn = "load_template" /\ call.pc # "call") =>
          IF call.name \in DOMAIN call.store
          THEN /\ call.pc = "returned"
               /\ call.result.kind = "returned"
               /\ IsReadOf(call.result.value, call.store[call.name])
               /\ (\A i \in DOMAIN call.store[call.name] :
                      call.store[call.name][i] # CR) =>
                     call.result.value = call.store[call.name]
          ELSE /\ call.pc = "raised"
               /\ call.result =
                     Raised("FileNotFoundError",
                            <<"Template not found: ",
                              <<TEMPLATES_DIR, call.name>>>>)

\* a file with "\r\n" in it was loaded and came back with "\n" alone
C14_Witness ==
    /\ call.fn = "load_template"
    /\ call.pc = "returned"
    /\ call.name = "faq_template.json"
    /\ DOMAIN call.store = {"faq_template.json"}
    /\ call.store[call.name] = <<"[", CR, LF, "]">>
    /\ call.result = Returned(<<"[", LF, "]">>)

(***************************************************************************)
(* parse_raw_dataset                                                       *)
(***************************************************************************)
REQUIRED_FIELDS ==
    <<"Product Name", "Concentration", "Skin Type", "Key Ingredients",
      "Benefits", "How to Use", "Side Effects", "Price">>

\* the rupee sign, one character
RUPEE == "RUPEE"

Float(lexeme) == [t |-> "float", v |-> lexeme]

\* str.isspace over the model's characters
PySpace == {" ", TAB, LF, CR, FF}

RECURSIVE RStrip(_)
\* s.rstrip()
RStrip(s) ==
    IF s # <<>> /\ s[Len(s)] \in PySpace
    THEN RStrip(Slice(s, 0, Len(s) - 1))
    ELSE s

\* s.strip()
Strip(s) == RStrip(Slice(s, SkipWhile(s, 0, PySpace), Len(s)))

RECURSIVE SplitAt(_, _, _)
\* s.split(sep) for a separator of one character, cur being the part read
\* so far
SplitAt(s, sep, cur) ==
    IF s = <<>> THEN <<cur>>
    ELSE IF Head(s) = sep THEN <<cur>> \o SplitAt(Tail(s), sep, <<>>)
    ELSE SplitAt(Tail(s), sep, Append(cur, Head(s)))

RECURSIVE Remove(_, _)
\* s.replace(old, "") for a non-empty old
Remove(s, old) ==
    IF s = <<>> THEN <<>>
    ELSE IF StartsWith(s, 0, old) THEN Remove(Slice(s, Len(old), Len(s)), old)
    ELSE <<Head(s)>> \o Remove(Tail(s), old)

\* str(x)
PyStr(x) ==
    CASE x.t = "str" -> x.v
      [] x.t = "num" -> IntText(x.v)
      [] x.t = "float" -> x.v
      [] x.t = "bool" -> IF x.v THEN <<"T", "r", "u", "e">>
                         ELSE <<"F", "a", "l", "s", "e">>
      [] x.t = "null" -> <<"N", "o", "n", "e">>

\* lines 56-63
_ensure_list(value) ==
    IF value.t = "str"
    THEN LET parts == SplitAt(value.v, ",", <<>>)
             stripped == [i \in DOMAIN parts |-> Str(Strip(parts[i]))]
         IN List(SelectSeq(stripped, LAMBDA p : p.v # <<>>))
    ELSE IF value.t = "list"
    THEN List([i \in DOMAIN value.v |-> Str(Strip(PyStr(value.v[i])))])
    ELSE List(<<Str(Strip(PyStr(value)))>>)

\* int(float(v)) for a text v of digits, sign and point: whether float
\* takes it, and the value cut towards zero
IntOfFloat(v) ==
    LET signed == v # <<>> /\ Head(v) \in {"+", "-"}
        body == IF signed THEN Tail(v) ELSE v
        d1 == SkipWhile(body, 0, Digits)
        point == At(body, d1) = "."
        d2 == IF point THEN SkipWhile(body, d1 + 1, Digits) ELSE d1
        last == IF point THEN d2 ELSE d1
        digits == d1 + (IF point THEN d2 - d1 - 1 ELSE 0)
        whole == DigitsValue(Slice(body, 0, d1), 0)
    IN IF last = Len(body) /\ digits > 0
       THEN [ok |-> TRUE,
             value |-> IF signed /\ Head(v) = "-" THEN 0 - whole ELSE whole]
       ELSE [ok |-> FALSE]

\* _parse_price that takes whatever it cannot read for 0
ParsePriceOrZero(value) ==
    IF value.t \in {"num", "bool", "float"}
    THEN Returned(Num(IF value.t = "num" THEN value.v
                      ELSE IF value.t = "bool"
                      THEN (IF value.v THEN 1 ELSE 0)
                      ELSE IntOfFloat(value.v).value))
    ELSE IF value.t = "str"
    THEN LET v == Strip(Remove(Remove(Remove(Strip(value.v), <<RUPEE>>),
                                      <<"I", "N", "R">>), <<",">>))
             n == IntOfFloat(v)
         IN IF n.ok THEN Returned(Num(n.value)) ELSE Returned(Num(0))
    ELSE Returned(Num(0))

\* lines 66-75
_parse_price(value) ==
    IF value.t \in {"num", "bool", "float"}
    THEN Returned(Num(IF value.t = "num" THEN value.v
                      ELSE IF value.t = "bool"
                      THEN (IF value.v THEN 1 ELSE 0)
                      ELSE IntOfFloat(value.v).value))
    ELSE IF value.t = "str"
    THEN LET v == Strip(Remove(Remove(Remove(Strip(value.v), <<RUPEE>>),
                                      <<"I", "N", "R">>), <<",">>))
             n == IntOfFloat(v)
         IN IF n.ok THEN Returned(Num(n.value))
            ELSE Raised("ValueError", <<"Unable to parse price: ", value>>)
    ELSE Raised("ValueError", <<"Unsupported price type: ", value.t>>)

\* x.strip() of a field: what a value that is no str raises
NoStrip(x) ==
    Raised("AttributeError", <<x.t, " object has no attribute 'strip'">>)

\* line 28: the required fields that raw lacks, in the order of the list
Missing(raw) == SelectSeq(REQUIRED_FIELDS, LAMBDA f : f \notin DOMAIN raw)

\* lines 32-53 for a raw with all the fields: the statements run in order,
\* and the first that raises ends the call
Normalize(raw) ==
    IF raw["Product Name"].t # "str" THEN NoStrip(raw["Product Name"])
    ELSE IF _parse_price(raw["Price"]).kind = "raised"
    THEN _parse_price(raw["Price"])
    ELSE IF raw["Concentration"].t # "str" THEN NoStrip(raw["Concentration"])
    ELSE IF raw["How to Use"].t # "str" THEN NoStrip(raw["How to Use"])
    ELSE IF raw["Side Effects"].t # "str" THEN NoStrip(raw["Side Effects"])
    ELSE Returned(
           [name |-> Str(Strip(raw["Product Name"].v)),
            concentration |-> Str(Strip(raw["Concentration"].v)),
            skin_type |-> _ensure_list(raw["Skin Type"]),
            ingredients |-> _ensure_list(raw["Key Ingredients"]),
            benefits |-> _ensure_list(raw["Benefits"]),
            how_to_use |-> Str(Strip(raw["How to Use"].v)),
            side_effects |-> Str(Strip(raw["Side Effects"].v)),
            price |-> _parse_price(raw["Price"]).value])

\* lines 28-30: the check of the required fields
ParseValidate ==
    /\ call.fn = "parse_raw_dataset"
    /\ call.pc = "call"
    /\ IF Missing(call.raw) # <<>>
       THEN End(Raised("ValueError",
                       <<"Missing required fields: ", Missing(call.raw)>>))
       ELSE call' = [call EXCEPT !.pc = "normalize"]
    /\ UNCHANGED renderVars

\* lines 32-53: the normalization
ParseNormalize ==
    /\ call.fn = "parse_raw_dataset"
    /\ call.pc = "normalize"
    /\ call' = [call EXCEPT !.pc = Normalize(call.raw).kind,
                            !.result = Normalize(call.raw),
                            !.normalizing = TRUE]
    /\ UNCHANGED renderVars

\* the prices tried
PriceTexts ==
    { <<RUPEE, "6", "9", "9">>,
      <<"I", "N", "R", " ", "1", ",", "2", "9", "9", ".", "5", "0">>,
      <<" ", "1", "2", LF>>,
      <<"x">>,
      <<>>,
      <<"-", "0", ".", "5">>,
      <<"1", ".", "5", ".", "2">>,
      <<"5", ".">>,
      <<".", "5">>,
      <<"+", "7">>,
      <<"1", " ", "2">>,
      <<".">>,
      <<RUPEE>>,
      <<"I", RUPEE, "N", "R", "9">>,
      <<"-">>,
      <<"1", ",", "2">> }
Prices ==
    {Str(t) : t \in PriceTexts}
    \cup {Num(499), Num(-3), Bool(TRUE), Float(<<"4", "9", ".", "9">>),
          Float(<<"-", "0", ".", "5">>), None, List(<<Num(1)>>)}

\* raw datasets with all the fields but the price: as the assignment
\* gives them, with lists, with values that are neither str nor list, and
\* with a text field that is no str
RawShapes ==
    { [f \in {"Product Name", "Concentration", "Skin Type",
              "Key Ingredients", "Benefits", "How to Use",
              "Side Effects"} |->
         CASE f = "Product Name" -> Str(<<" ", "G", "l", "o", "w", LF>>)
           [] f = "Concentration" -> Str(<<"1", "0", "%">>)
           [] f = "Skin Type" -> Str(<<"O", "i", "l", "y", ",", " ", "D", "r", "y">>)
           [] f = "Key Ingredients" -> Str(<<"a", ",", ",", " ", "b", " ", ",">>)
           [] f = "Benefits" -> Str(<<>>)
           [] f = "How to Use" -> Str(<<"x">>)
           [] f = "Side Effects" -> Str(<<" ">>)],
      [f \in {"Product Name", "Concentration", "Skin Type",
              "Key Ingredients", "Benefits", "How to Use",
              "Side Effects"} |->
         CASE f = "Skin Type" -> List(<<Str(<<" ", "o", " ">>), Num(1)>>)
           [] f = "Key Ingredients" -> List(<<>>)
           [] f = "Benefits" -> List(<<None, Bool(TRUE), Str(<<" ">>)>>)
           [] OTHER -> Str(<<"x">>)],
      [f \in {"Product Name", "Concentration", "Skin Type",
              "Key Ingredients", "Benefits", "How to Use",
              "Side Effects"} |->
         CASE f = "Skin Type" -> Num(5)
           [] f = "Key Ingredients" -> None
           [] f = "Benefits" -> Bool(FALSE)
           [] OTHER -> Str(<<"x">>)],
      [f \in {"Product Name", "Concentration", "Skin Type",
              "Key Ingredients", "Benefits", "How to Use",
              "Side Effects"} |->
         CASE f = "Product Name" -> None
           [] OTHER -> Str(<<"x">>)],
      [f \in {"Product Name", "Concentration", "Skin Type",
              "Key Ingredients", "Benefits", "How to Use",
              "Side Effects"} |->
         CASE f = "Side Effects" -> Num(1)
           [] OTHER -> Str(<<"x">>)] }

FieldSet == {REQUIRED_FIELDS[i] : i \in DOMAIN REQUIRED_FIELDS}

\* the raw datasets: a shape and a price, with any of the fields left out
RawDatasets ==
    {[f \in S |-> IF f = "Price" THEN p ELSE shape[f]] :
        S \in SUBSET FieldSet, shape \in RawShapes, p \in Prices}

ParseCalls ==
    {[fn |-> "parse_raw_dataset", pc |-> "call", result |-> NoResult,
      raw |-> raw, normalizing |-> FALSE] : raw \in RawDatasets}

\* what Python gives for the int(...) of each price tried, NoPrice where it
\* raises
NoPrice == [t |-> "raise"]
PriceExpected(p) ==
    CASE p = Str(<<RUPEE, "6", "9", "9">>) -> Num(699)
      [] p = Str(<<"I", "N", "R", " ", "1", ",", "2", "9", "9", ".", "5", "0">>)
           -> Num(1299)
      [] p = Str(<<" ", "1", "2", LF>>) -> Num(12)
      [] p = Str(<<"-", "0", ".", "5">>) -> Num(0)
      [] p = Str(<<"5", ".">>) -> Num(5)
      [] p = Str(<<".", "5">>) -> Num(0)
      [] p = Str(<<"+", "7">>) -> Num(7)
      [] p = Str(<<"I", RUPEE, "N", "R", "9">>) -> Num(9)
      [] p = Str(<<"1", ",", "2">>) -> Num(12)
      [] p = Num(499) -> Num(499)
      [] p = Num(-3) -> Num(-3)
      [] p = Bool(TRUE) -> Num(1)
      [] p = Float(<<"4", "9", ".", "9">>) -> Num(49)
      [] p = Float(<<"-", "0", ".", "5">>) -> Num(0)
      [] OTHER -> NoPrice

ModelKeys ==
    {"name", "concentration", "skin_type", "ingredients", "benefits",
     "how_to_use", "side_effects", "price"}
TextFields == {"Product Name", "Concentration", "How to Use", "Side Effects"}

\* the call raised the ValueError that names the fields raw lacks, in the
\* order of REQUIRED_FIELDS, and no normalization statement ran
RaisedMissing ==
    /\ call.pc = "raised"
    /\ call.result.exc = "ValueError"
    /\ call.result.message[1] = "Missing required fields: "
    /\ LET named == call.result.message[2]
       IN /\ {named[i] : i \in DOMAIN named} = FieldSet \ DOMAIN call.raw
          /\ \A i, j \in DOMAIN named :
                i < j =>
                   \E k, l \in DOMAIN REQUIRED_FIELDS :
                      /\ k < l
                      /\ REQUIRED_FIELDS[k] = named[i]
                      /\ REQUIRED_FIELDS[l] = named[j]
    /\ ~call.normalizing

\* x is a list of stripped strs
IsStrList(x) ==
    /\ x.t = "list"
    /\ \A i \in DOMAIN x.v : x.v[i].t = "str" /\ Strip(x.v[i].v) = x.v[i].v

\* the call returned a model with exactly the eight keys
ReturnedModel ==
    /\ call.pc = "returned"
    /\ call.result.kind = "returned"
    /\ DOMAIN call.result.value = ModelKeys

MaxBenefits == 3
MaxMinQuestions == 18

\* lines 31-64: the fifteen questions, each the text before the name, the
\* text after it, and the category
FixedQuestions ==
    <<
       [before |-> <<"W", "h", "a", "t", " ", "d", "o", "e", "s", " ">>,
        after |-> <<" ", "d", "o", "?">>,
        category |-> "Informational"],
       [before |-> <<"W", "h", "a", "t", " ", "i", "s", " ", "t", "h", "e", " ", "a", "c", "t", "i", "v", "e", " ", "c", "o", "n", "c", "e", "n", "t", "r", "a", "t", "i", "o", "n", " ", "i", "n", " ">>,
        after |-> <<"?">>,
        category |-> "Informational"],
       [before |-> <<"W", "h", "o", " ", "i", "s", " ">>,
        after |-> <<" ", "s", "u", "i", "t", "a", "b", "l", "e", " ", "f", "o", "r", "?">>,
        category |-> "Informational"],
       [before |-> <<"W", "h", "a", "t", " ", "a", "r", "e", " ", "t", "h", "e", " ", "k", "e", "y", " ", "i", "n", "g", "r", "e", "d", "i", "e", "n", "t", "s", " ", "i", "n", " ">>,
        after |-> <<"?">>,
        category |-> "Ingredients"],
       [before |-> <<"H", "o", "w", " ", "s", "h", "o", "u", "l", "d", " ", "I", " ", "u", "s", "e", " ">>,
        after |-> <<"?">>,
        category |-> "Usage"],
       [before |-> <<"H", "o", "w", " ", "m", "a", "n", "y", " ", "d", "r", "o", "p", "s", " ", "o", "f", " ">>,
        after |-> <<" ", "s", "h", "o", "u", "l", "d", " ", "I", " ", "a", "p", "p", "l", "y", "?">>,
        category |-> "Usage"],
       [before |-> <<"W", "h", "e", "n", " ", "i", "s", " ", "t", "h", "e", " ", "b", "e", "s", "t", " ", "t", "i", "m", "e", " ", "t", "o", " ", "a", "p", "p", "l", "y", " ">>,
        after |-> <<"?">>,
        category |-> "Usage"],
       [before |-> <<"A", "r", "e", " ", "t", "h", "e", "r", "e", " ", "a", "n", "y", " ", "s", "i", "d", "e", " ", "e", "f", "f", "e", "c", "t", "s", " ", "o", "f", " ">>,
        after |-> <<"?">>,
        category |-> "Safety"],
       [before |-> <<"C", "a", "n", " ", "s", "e", "n", "s", "i", "t", "i", "v", "e", " ", "s", "k", "i", "n", " ", "u", "s", "e", " ">>,
        after |-> <<"?">>,
        category |-> "Safety"],
       [before |-> <<"W", "h", "a", "t", " ", "s", "h", "o", "u", "l", "d", " ", "I", " ", "d", "o", " ", "i", "f", " ", "I", " ", "e", "x", "p", "e", "r", "i", "e", "n", "c", "e", " ", "i", "r", "r", "i", "t", "a", "t", "i", "o", "n", " ", "f", "r", "o", "m", " ">>,
        after |-> <<"?">>,
        category |-> "Safety"],
       [before |-> <<"H", "o", "w", " ", "m", "u", "c", "h", " ", "d", "o", "e", "s", " ">>,
        after |-> <<" ", "c", "o", "s", "t", "?">>,
        category |-> "Purchase"],
       [before |-> <<"W", "h", "e", "r", "e", " ", "c", "a", "n", " ", "I", " ", "b", "u", "y", " ">>,
        after |-> <<"?">>,
        category |-> "Purchase"],
       [before |-> <<"H", "o", "w", " ", "d", "o", "e", "s", " ">>,
        after |-> <<" ", "c", "o", "m", "p", "a", "r", "e", " ", "t", "o", " ", "P", "r", "o", "d", "u", "c", "t", " ", "B", " ", "f", "o", "r", " ", "b", "r", "i", "g", "h", "t", "e", "n", "i", "n", "g", "?">>,
        category |-> "Comparison"],
       [before |-> <<"I", "s", " ">>,
        after |-> <<" ", "b", "e", "t", "t", "e", "r", " ", "t", "h", "a", "n", " ", "P", "r", "o", "d", "u", "c", "t", " ", "B", " ", "f", "o", "r", " ", "o", "i", "l", "y", " ", "s", "k", "i", "n", "?">>,
        category |-> "Comparison"],
       [before |-> <<"W", "h", "a", "t", " ", "i", "n", "g", "r", "e", "d", "i", "e", "n", "t", "s", " ", "d", "o", "e", "s", " ">>,
        after |-> <<" ", "s", "h", "a", "r", "e", " ", "w", "i", "t", "h", " ", "P", "r", "o", "d", "u", "c", "t", " ", "B", "?">>,
        category |-> "Comparison"]
    >>

\* c.lower() for a character
LowerChar(c) ==
    IF c \in Upper THEN LowerSeq[CHOOSE i \in 1..26 : UpperSeq[i] = c] ELSE c
\* s.lower()
LowerText(s) == [i \in DOMAIN s |-> LowerChar(s[i])]

Question(text, category) == [question |-> text, category |-> category]

\* lines 32-64: the list after the five += statements
Fixed(name) ==
    [i \in DOMAIN FixedQuestions |->
        Question(FixedQuestions[i].before \o name \o FixedQuestions[i].after,
                 FixedQuestions[i].category)]

RECURSIVE Extend(_, _, _, _)
\* lines 68-71: the loop over the benefits left, which appends one question
\* and stops once there are min_questions
Extend(questions, benefits, name, min_questions) ==
    IF benefits = <<>> THEN questions
    ELSE LET more == Append(questions,
                        Question(<<"H", "o", "w", " ", "d", "o", "e", "s", " ">> \o name
                                 \o <<" ", "h", "e", "l", "p", " ", "w", "i", "t", "h", " ">>
                                 \o LowerText(Head(benefits)) \o <<"?">>,
                                 "Informational"))
         IN IF Len(more) >= min_questions THEN more
            ELSE Extend(more, Tail(benefits), name, min_questions)

\* line 77: the key a question is known by
DedupeKey(q) == <<LowerText(Strip(q.question)), q.category>>

RECURSIVE Dedupe(_, _, _)
\* lines 74-81: the questions whose key was not seen before, in order
Dedupe(questions, seen, unique) ==
    IF questions = <<>> THEN unique
    ELSE LET q == Head(questions)
         IN IF DedupeKey(q) \in seen
            THEN Dedupe(Tail(questions), seen, unique)
            ELSE Dedupe(Tail(questions), seen \cup {DedupeKey(q)},
                        Append(unique, q))

\* max(a, b)
Max(a, b) == IF a > b THEN a ELSE b

\* s[:b] for b >= 0: a slice ends at len(s) at the latest
SliceTo(s, b) == SubSeq(s, 1, IF b > Len(s) THEN Len(s) ELSE b)

\* lines 21-83
generate_questions(product, min_questions) ==
    IF "name" \notin DOMAIN product THEN Raised("KeyError", <<"name">>)
    ELSE LET name == product.name
             benefits == IF "benefits" \in DOMAIN product
                         THEN product.benefits ELSE <<>>
             questions == IF Len(Fixed(name)) < min_questions
                          THEN Extend(Fixed(name), benefits, name,
                                      min_questions)
                          ELSE Fixed(name)
             unique == Dedupe(questions, {}, <<>>)
         IN Returned(SliceTo(unique, Max(min_questions, Len(unique))))

\* the action of a generate_questions call
GenerateQuestions ==
    /\ call.fn = "generate_questions"
    /\ call.pc = "call"
    /\ End(generate_questions(call.product, call.min_questions))
    /\ UNCHANGED renderVars

\* the product models and the values of min_questions tried
BenefitTexts ==
    { <<"G", "l", "o", "w">>, <<"g", "l", "o", "w">>, <<"D", "r", "y">> }
ProductNames == { <<"X">>, <<" ", "a", "B">> }
Products ==
    {[name |-> n, benefits |-> bs] :
        n \in ProductNames, bs \in SeqsUpTo(BenefitTexts, MaxBenefits)}
    \cup {[name |-> n] : n \in ProductNames}
    \cup {[benefits |-> <<>>]}

\* the value of the min_questions parameter when it is left out
DefaultMinQuestions == 15

QuestionCalls ==
    {[fn |-> "generate_questions", pc |-> "call", result |-> NoResult,
      product |-> p, min_questions |-> m] :
        p \in Products, m \in 0..MaxMinQuestions}

\* C16: for every product model and every min_questions, generate_questions
\* returns at least min_questions questions, at least 15 by default, each
\* with a question text and a category.
C16_AtLeastMinQuestions ==
    (call.fn = "generate_questions" /\ call.pc # "call"
     /\ "name" \in DOMAIN call.product) =>
       /\ call.pc = "returned"
       /\ Len(call.result.value) >= call.min_questions
       /\ \A i \in DOMAIN call.result.value :
             /\ DOMAIN call.result.value[i] = {"question", "category"}
             /\ call.result.value[i].question # <<>>
             /\ call.result.value[i].category # ""

\* with min_questions left at 15 there are fifteen questions, each with a
\* text and a category
FifteenByDefault ==
    (call.fn = "generate_questions" /\ call.pc # "call"
     /\ "name" \in DOMAIN call.product
     /\ call.min_questions <= DefaultMinQuestions) =>
       /\ call.pc = "returned"
       /\ Len(call.result.value) = 15
       /\ \A i \in DOMAIN call.result.value :
             /\ DOMAIN call.result.value[i] = {"question", "category"}
             /\ call.result.value[i].question # <<>>

(***************************************************************************)
(* compare_ingredients_block and compare_benefits_block                    *)
(***************************************************************************)
\* the most items a product lists
MaxItems == 2

\* the letter sharp s, one character: it is its own lower case, and its
\* title case is the two characters "Ss"
SHARP_S == "SHARP_S"

\* ord(c) for the characters of the items
Ord(c) ==
    IF c \in Digits THEN 48 + DigitVal(c)
    ELSE IF c \in Upper THEN 64 + (CHOOSE i \in 1..26 : UpperSeq[i] = c)
    ELSE IF c \in Lower THEN 96 + (CHOOSE i \in 1..26 : LowerSeq[i] = c)
    ELSE IF c = " " THEN 32
    ELSE IF c = "-" THEN 45
    ELSE 223

RECURSIVE TextLess(_, _)
\* s < t for two strs: by the first character that differs, a proper
\* prefix first
TextLess(s, t) ==
    IF t = <<>> THEN FALSE
    ELSE IF s = <<>> THEN TRUE
    ELSE IF Head(s) = Head(t) THEN TextLess(Tail(s), Tail(t))
    ELSE Ord(Head(s)) < Ord(Head(t))

\* c is a cased character
IsCased(c) == c \in Lower \cup Upper \cup {SHARP_S}

\* the title case of a character
TitleChar(c) ==
    IF c \in Lower THEN <<UpperSeq[CHOOSE i \in 1..26 : LowerSeq[i] = c]>>
    ELSE IF c = SHARP_S THEN <<"S", "s">>
    ELSE <<c>>

RECURSIVE TitleFrom(_, _)
\* s.title(): a character after a cased one is put in lower case, any
\* other in title case
TitleFrom(s, previous_is_cased) ==
    IF s = <<>> THEN <<>>
    ELSE (IF previous_is_cased THEN <<LowerChar(Head(s))>>
          ELSE TitleChar(Head(s)))
         \o TitleFrom(Tail(s), IsCased(Head(s)))

TitleText(s) == TitleFrom(s, FALSE)

\* the set of the items as they are written
RawSet(items) == {items[i] : i \in DOMAIN items}

\* set([i.lower() for i in items])
LowerSet(items) == {LowerText(items[i]) : i \in DOMAIN items}

\* sorted([i.title() for i in S])
SortedTitles(S) ==
    LET titled == [x \in S |-> TitleText(x)]
        RECURSIVE Bag(_)
        Bag(T) == IF T = {} THEN <<>>
                  ELSE LET x == CHOOSE x \in T : TRUE
                       IN <<titled[x]>> \o Bag(T \ {x})
        RECURSIVE Insert(_, _)
        Insert(x, sorted) ==
            IF sorted = <<>> THEN <<x>>
            ELSE IF TextLess(x, Head(sorted)) THEN <<x>> \o sorted
            ELSE <<Head(sorted)>> \o Insert(x, Tail(sorted))
        RECURSIVE Sort(_)
        Sort(list) == IF list = <<>> THEN <<>>
                      ELSE Insert(Head(list), Sort(Tail(list)))
    IN Sort(Bag(S))

\* prod.get(key, [])
GetList(prod, key) == IF key \in DOMAIN prod THEN prod[key] ELSE <<>>

\* lines 36-42 and 45-52: the three lists for the items under key
CompareBlock(prod_a, prod_b, key) ==
    LET a == LowerSet(GetList(prod_a, key))
        b == LowerSet(GetList(prod_b, key))
    IN [common |-> SortedTitles(a \cap b),
        a_only |-> SortedTitles(a \ b),
        b_only |-> SortedTitles(b \ a)]

compare_ingredients_block(prod_a, prod_b) ==
    Returned(CompareBlock(prod_a, prod_b, "ingredients"))

compare_benefits_block(prod_a, prod_b) ==
    Returned(CompareBlock(prod_a, prod_b, "benefits"))

\* the action of a compare_ingredients_block call
CompareIngredients ==
    /\ call.fn = "compare_ingredients_block"
    /\ call.pc = "call"
    /\ End(compare_ingredients_block(call.prod_a, call.prod_b))
    /\ UNCHANGED renderVars

\* the action of a compare_benefits_block call
CompareBenefits ==
    /\ call.fn = "compare_benefits_block"
    /\ call.pc = "call"
    /\ End(compare_benefits_block(call.prod_a, call.prod_b))
    /\ UNCHANGED renderVars

\* the items tried and the products that list them
ItemTexts == { <<"a">>, <<"A">>, <<"s", "s">>, <<SHARP_S>> }
ItemLists ==
    SeqsUpTo(ItemTexts, MaxItems)
    \cup { << <<"b", "3", "d">> >>,
           << <<"a">>, <<"b", "3", "d">> >>,
           << <<"b", "3", "d">>, <<"A">> >> }
ComparedProducts ==
    {[ingredients |-> l, benefits |-> l] : l \in ItemLists}
    \cup {[name |-> <<"X">>]}

CompareCalls ==
    {[fn |-> f, pc |-> "call", result |-> NoResult,
      prod_a |-> a, prod_b |-> b] :
        f \in {"compare_ingredients_block", "compare_benefits_block"},
        a \in ComparedProducts, b \in ComparedProducts}

\* x and y are the same item when case is ignored
SameItem(x, y) == LowerText(x) = LowerText(y)

Elems(list) == {list[i] : i \in DOMAIN list}

\* the key a compare call reads
ComparedKey ==
    IF call.fn = "compare_ingredients_block" THEN "ingredients"
    ELSE "benefits"

\* no item of list l is, case ignored, an item of list m
DisjointLists(l, m) ==
    \A x \in Elems(l) : \A y \in Elems(m) : ~SameItem(x, y)

\* list l is in ascending order
Ascending(l) == \A i, j \in DOMAIN l : i < j => ~TextLess(l[j], l[i])

\* the three lists of the result r split the items of lists a and b: no
\* item in two lists, every item of a or b in one, nothing else in any,
\* common the items of both, each list in order
SplitsItems(r, a, b) ==
    LET in_a(y) == \E x \in Elems(a) : SameItem(x, y)
        in_b(y) == \E x \in Elems(b) : SameItem(x, y)
    IN /\ DOMAIN r = {"common", "a_only", "b_only"}
       /\ DisjointLists(r.common, r.a_only)
       /\ DisjointLists(r.common, r.b_only)
       /\ DisjointLists(r.a_only, r.b_only)
       /\ \A x \in Elems(a) \cup Elems(b) :
             \E y \in Elems(r.common) \cup Elems(r.a_only) \cup Elems(r.b_only) :
                SameItem(x, y)
       /\ \A y \in Elems(r.common) : in_a(y) /\ in_b(y)
       /\ \A y \in Elems(r.a_only) : in_a(y) /\ ~in_b(y)
       /\ \A y \in Elems(r.b_only) : in_b(y) /\ ~in_a(y)
       /\ Ascending(r.common) /\ Ascending(r.a_only) /\ Ascending(r.b_only)

\* a compare call has ended
Compared ==
    /\ call.fn \in {"compare_ingredients_block", "compare_benefits_block"}
    /\ call.pc # "call"

\* C20 as stated: for every pair of products the lists common, a_only and
\* b_only are pairwise disjoint when case is ignored, hold together
\* exactly the items of both products, common those of both, and each is
\* sorted.
C20_SplitsEveryPair ==
    Compared =>
       /\ call.pc = "returned"
       /\ SplitsItems(call.result.value,
                      GetList(call.prod_a, ComparedKey),
                      GetList(call.prod_b, ComparedKey))

\* title() gives item x back when case is ignored
TitleKeeps(x) == SameItem(TitleText(LowerText(x)), x)

\* C20: for every pair of products whose items title() gives back when case
\* is ignored, as it does all ASCII text, the lists common, a_only and
\* b_only are pairwise disjoint when case is ignored, hold together exactly
\* the items of both products, common those of both, and each is sorted;
\* for any pair the call returns the three lists, each sorted.
C20_CompareBlocks ==
    /\ (call.fn \in {"compare_ingredients_block", "compare_benefits_block"}
        /\ call.pc = "call") => call.result = NoResult
    /\ Compared =>
         LET a == GetList(call.prod_a, ComparedKey)
             b == GetList(call.prod_b, ComparedKey)
             r == call.result.value
         IN /\ call.pc = "returned"
            /\ DOMAIN r = {"common", "a_only", "b_only"}
            /\ Ascending(r.common) /\ Ascending(r.a_only)
            /\ Ascending(r.b_only)
            /\ (\A x \in Elems(a) \cup Elems(b) : TitleKeeps(x)) =>
                  SplitsItems(r, a, b)

\* products that list "ss", "A" and "a", "b3d" were compared: A is common,
\* Ss only the first's, B3D only the second's
C20_Witness ==
    /\ call.fn = "compare_ingredients_block"
    /\ call.pc = "returned"
    /\ GetList(call.prod_a, "ingredients") = << <<"s", "s">>, <<"A">> >>
    /\ GetList(call.prod_b, "ingredients") = << <<"a">>, <<"b", "3", "d">> >>
    /\ call.result.value = [common |-> << <<"A">> >>,
                            a_only |-> << <<"S", "s">> >>,
                            b_only |-> << <<"B", "3", "D">> >>]

(***************************************************************************)
(* The calls of the other functions.                                       *)
(***************************************************************************)
CallInit ==
    /\ RenderIdle
    /\ call \in LoadCalls \cup ParseCalls \cup QuestionCalls \cup CompareCalls

CallNext ==
    \/ LoadTemplate
    \/ ParseValidate
    \/ ParseNormalize
    \/ GenerateQuestions
    \/ CompareIngredients
    \/ CompareBenefits

CallSpec == CallInit /\ [][CallNext]_vars

(***************************************************************************)
(* Several render_template calls at once over one context.  Here call      *)
(* holds the context ctx they share, and per render its template, its pc   *)
(* and its result; frames holds the locals last_index, filled_parts and    *)
(* filled of the renders.  A step of a render is one iteration of its loop *)
(* or its end, and the steps of the renders interleave in any order.       *)
(***************************************************************************)
\* how many renders run at once
NumRenders == 2
Renders == 1..NumRenders

\* every render keeps its locals in the first frame
SharedFrame(i) == 1

\* lines 51-52: the frame of render i, where its locals live: its own
Own(i) == i

\* a lookup that takes the first segment of the key out of the context
ContextAfterPop(ctx, key) ==
    Map(SelectSeq(ctx.v, LAMBDA pair : pair[1] # Head(Split(key))))

\* lines 27-37, 69: the context after the lookup of key: as it was, the
\* lookup only reads
ContextAfter(ctx, key) == ctx

\* lines 54-100: one iteration of the loop of render i
RenderIterate(i) ==
    LET f == call.frames[Own(i)]
        text == call.template[i]
    IN /\ call.fn = "render_template*"
       /\ call.pc[i] = "scan"
       /\ HasMatch(text, f.last_index)
       /\ LET m == NextMatch(text, f.last_index)
              value == _lookup_context(call.ctx, m.key)
              inside == InsideQuotes(text, m.start, m.end)
              put == IF value = None THEN MissingText(inside)
                     ELSE IF IsComposite(value) THEN CompositeText(value)
                     ELSE PrimitiveText(value, inside)
          IN call' = [call EXCEPT
                        !.ctx = ContextAfter(call.ctx, m.key),
                        !.frames[Own(i)] =
                            [f EXCEPT
                               !.filled_parts =
                                   f.filled_parts
                                   \o <<Slice(text, f.last_index, m.start),
                                        put>>,
                               !.last_index = m.end]]
       /\ UNCHANGED renderVars

\* lines 102-107: the end of render i
RenderFinish(i) ==
    LET f == call.frames[Own(i)]
        text == call.template[i]
        joined == Assemble(f.filled_parts, text, f.last_index)
    IN /\ call.fn = "render_template*"
       /\ call.pc[i] = "scan"
       /\ ~HasMatch(text, f.last_index)
       /\ call' = [call EXCEPT
                     !.frames[Own(i)] =
                         [f EXCEPT
                            !.filled_parts =
                                Append(f.filled_parts,
                                       Slice(text, f.last_index, Len(text))),
                            !.filled = joined],
                     !.result[i] = Loads(joined),
                     !.text[i] = joined,
                     !.pc[i] = Loads(joined).kind]
       /\ UNCHANGED renderVars

\* the templates and contexts of the renders that run at once
SharedTemplates ==
    { PhA,
      <<QUOTE>> \o PhA \o <<QUOTE>>,
      <<"[">> \o PhA \o <<",", " ">> \o PhAB \o <<"]">>,
      <<"[">> \o PhA \o <<",">> \o PhA \o <<"]">>,
      <<"[", "1", "]">> }
SharedContexts ==
    { Map(<<>>) }
    \cup {Map(<< <<<<"a">>, x>> >>) :
            x \in {None, Str(<<"x">>), Str(<<QUOTE>>),
                   List(<<Str(<<"a">>), Num(1)>>),
                   Map(<< <<<<"b">>, Num(42)>> >>)}}

RendersInit ==
    /\ RenderIdle
    /\ \E ctx \in SharedContexts, ts \in [Renders -> SharedTemplates] :
          call = [fn |-> "render_template*",
                  ctx |-> ctx,
                  template |-> ts,
                  pc |-> [i \in Renders |-> "scan"],
                  frames |-> [i \in Renders |->
                                [last_index |-> 0, filled_parts |-> <<>>,
                                 filled |-> <<>>]],
                  text |-> [i \in Renders |-> <<>>],
                  result |-> [i \in Renders |-> NoResult]]

RendersNext ==
    \E i \in Renders :
       \/ RenderIterate(i)
       \/ RenderFinish(i)

RendersSpec == RendersInit /\ [][RendersNext]_vars

RECURSIVE AloneText(_, _, _)
\* the text a render of text from offset from assembles when it runs alone
\* over ctx
AloneText(text, from, ctx) ==
    IF ~HasMatch(text, from) THEN Slice(text, from, Len(text))
    ELSE LET m == NextMatch(text, from)
         IN Slice(text, from, m.start)
            \o Serialization(_lookup_context(ctx, m.key),
                             InsideQuotes(text, m.start, m.end))
            \o AloneText(text, m.end, ctx)

\* render i has ended
Ended(i) == call.pc[i] \in {"returned", "raised"}

\* C12: rendering is deterministic: two renders of the same template over
\* the same context assemble the same text, character for character, and
\* end alike: both return, with equal values, or both fail.
C12_Deterministic ==
    call.fn = "render_template*" =>
       \A i, j \in Renders :
          (call.template[i] = call.template[j] /\ Ended(i) /\ Ended(j)) =>
             /\ call.text[i] = call.text[j]
             /\ call.result[i].kind = call.result[j].kind
             /\ call.result[i] = call.result[j]

\* two renders of the template [{{a}},{{a}}] over a list ended, both with
\* the same document
C12_Witness ==
    /\ call.fn = "render_template*"
    /\ call.template[1] = <<"[">> \o PhA \o <<",">> \o PhA \o <<"]">>
    /\ call.template[2] = call.template[1]
    /\ DictGet(call.ctx, <<"a">>) = List(<<Str(<<"a">>), Num(1)>>)
    /\ Ended(1) /\ Ended(2)
    /\ call.result[1].kind = "returned"
    /\ call.result[2] = call.result[1]

\* in every interleaving a render that has ended has the outcome and the
\* text it has when it runs alone, and one that has not has no outcome
SameAsAlone ==
    call.fn = "render_template*" =>
       \A i \in Renders :
          IF Ended(i)
          THEN /\ call.text[i] = AloneText(call.template[i], 0, call.ctx)
               /\ call.result[i] =
                     Loads(AloneText(call.template[i], 0, call.ctx))
          ELSE call.result[i] = NoResult

\* a step of a render leaves the templates and the context as they were
ArgumentsKept ==
    call.fn = "render_template*" =>
       /\ call'.ctx = call.ctx
       /\ call'.template = call.template

\* C13: renders share no state that changes and never change their
\* template or context: when several run at once over one context, in
\* every interleaving of their steps each returns the outcome it returns
\* alone, and templates and context stay as they were.
C13_Independent == [](SameAsAlone) /\ [][ArgumentsKept]_vars

\* two renders of different templates over one context both ended, one
\* with a document and one with a failure
C13_Witness ==
    /\ call.fn = "render_template*"
    /\ call.template[1] = <<"[">> \o PhA \o <<",", " ">> \o PhAB \o <<"]">>
    /\ call.template[2] = <<QUOTE>> \o PhA \o <<QUOTE>>
    /\ DictGet(call.ctx, <<"a">>) = Map(<< <<<<"b">>, Num(42)>> >>)
    /\ Ended(1) /\ Ended(2)
    /\ call.result[1].kind = "returned"
    /\ call.result[2].kind = "raised"

====
